---------------------------- MODULE Spec2Model ----------------------------
(***************************************************************************)
(* Request-time content-safety gate of kroger-agentic-bootcamp:            *)
(*   src/src/tools/detect_risks_plugin.py    detector, aggregator, gate    *)
(*   src/src/tools/link_safety_plugin.py     link-safety gate              *)
(*   src/src/tools/chain_preinvoke_plugin.py plugin chain                  *)
(*                                                                         *)
(* One behaviour of the model is one request: the agent runtime calls one  *)
(* of the registered pre-invoke tools with a payload.  Texts are strings   *)
(* and the regular expressions of the source are evaluated character by    *)
(* character.  Scores are integers in units of 10^-5, so that round(x, 4)  *)
(* is a real rounding.  Payloads live in a heap of objects, so that a deep *)
(* copy and the caller's instance are different objects.                   *)
(***************************************************************************)
EXTENDS Integers, Sequences, FiniteSets, TLC

(***************************************************************************)
(* Bounds of the model.                                                    *)
(***************************************************************************)
\* Largest number of messages in the payload the runtime hands over.
MaxMsgs == 2
\* Largest number of remote detect calls of one request that answer with
\* anything but an empty, successful detection list.
MaxEventful == 2

(***************************************************************************)
(* Configuration section of detect_risks_plugin.py.                        *)
(***************************************************************************)
ENABLE_HARM_DETECTION == TRUE
ENABLE_SOCIAL_BIAS_DETECTION == TRUE
ENABLE_JAILBREAK_DETECTION == TRUE
ENABLE_HAP_DETECTION == TRUE
ENABLE_PII_DETECTION == TRUE
ENABLE_PROMPT_INJECTION_DETECTION == TRUE
ENABLE_RESOURCE_EXHAUSTION_DETECTION == TRUE

\* Thresholds and scores are in units of 10^-5: 0.6 is 60000.
THRESHOLD_HARM == 60000
THRESHOLD_SOCIAL_BIAS == 60000
THRESHOLD_JAILBREAK == 60000
THRESHOLD_HAP == 60000
THRESHOLD_PII == 60000
THRESHOLD_PROMPT_INJECTION == 60000

RESOURCE_MAX_PROMPT_LENGTH == 10000
RESOURCE_MAX_NUMBER_SIZE == 1000000
MIN_SIZE_MESSAGE == 10

BLOCK_RESPONSE ==
  [message |-> "I'm sorry but your message was blocked due to safety concerns. Please modify your input and try again.",
   action |-> "BLOCK",
   guidance |-> "Remove any harmful, biased, abusive, personal information, or potentially unsafe content."]

REVIEW_RESPONSE ==
  [message |-> "Content flagged for review. Please verify this is appropriate.",
   action |-> "REVIEW",
   guidance |-> "Review the content for potential safety concerns before proceeding."]

ALLOW_RESPONSE ==
  [message |-> "Content passed safety checks.",
   action |-> "ALLOW",
   guidance |-> "No safety concerns detected."]

\* The module is imported by the runtime, never run as __main__.
_local == FALSE

\* Verdict thresholds of _run_detections, and the score of a local block.
HIGH_SCORE == 80000
MEDIUM_SCORE == 60000
EXHAUSTION_SCORE == 100000

(***************************************************************************)
(* Strings.  A character is a string of length 1.                          *)
(***************************************************************************)
Char(s, i) == SubSeq(s, i, i)

Digits == {"0", "1", "2", "3", "4", "5", "6", "7", "8", "9"}

UpperLetters == "ABCDEFGHIJKLMNOPQRSTUVWXYZ"
LowerLetters == "abcdefghijklmnopqrstuvwxyz"

\* \s of the re module, for the characters a TLA+ string can hold.
Whitespace == {" ", "\t", "\n", "\r", "\f"}

IsDigit(c) == c \in Digits

IsLetter(c) ==
  \E k \in 1..26 : c = Char(UpperLetters, k) \/ c = Char(LowerLetters, k)

LowerChar(c) ==
  IF \E k \in 1..26 : c = Char(UpperLetters, k)
    THEN Char(LowerLetters, CHOOSE k \in 1..26 : c = Char(UpperLetters, k))
    ELSE c

\* The characters i..j of s in lower case (by halves: the depth of the
\* evaluation is logarithmic in the length).
RECURSIVE LowerRange(_, _, _)
LowerRange(s, i, j) ==
  IF i > j THEN ""
  ELSE IF i = j THEN LowerChar(Char(s, i))
  ELSE LowerRange(s, i, (i + j) \div 2) \o LowerRange(s, (i + j) \div 2 + 1, j)

\* str.lower()
Lower(s) == LowerRange(s, 1, Len(s))

\* s[i:].startswith(w), 1-based
StartsAt(s, i, w) ==
  /\ i >= 1
  /\ i + Len(w) - 1 <= Len(s)
  /\ SubSeq(s, i, i + Len(w) - 1) = w

\* w in s
Contains(s, w) == \E i \in 1..(Len(s) + 1) : StartsAt(s, i, w)

Min(S) == CHOOSE x \in S : \A y \in S : x <= y

\* The end of the longest run of characters of class cls that starts at i
\* (i - 1 when the character at i is not in the class).
RunEnd(s, i, cls) ==
  LET stops == {j \in i..Len(s) : Char(s, j) \notin cls}
  IN  IF stops = {} THEN Len(s) ELSE Min(stops) - 1

DigitValue(c) == CHOOSE d \in 0..9 : Char("0123456789", d + 1) = c

\* int(num_str)
RECURSIVE ParseIntFrom(_, _, _)
ParseIntFrom(s, i, acc) ==
  IF i > Len(s) THEN acc
  ELSE ParseIntFrom(s, i + 1, acc * 10 + DigitValue(Char(s, i)))

ParseInt(s) == ParseIntFrom(s, 1, 0)


(***************************************************************************)
(* ResourceExhaustionDetector (local, no network).                         *)
(* A check is a fold of six rules over the triple (reasons, risk_level,    *)
(* flagged_text); flagged_text is <<>> for None and <<s>> for the string s.*)
(***************************************************************************)
RiskLevels == <<"low", "medium", "high">>

LevelIndex(l) == CHOOSE k \in 1..3 : RiskLevels[k] = l

\* A variant of Escalate that assigns the level instead of raising it.
EscalateAssign(level, to) == to

\* max(risk_level, to, key=lambda x: ["low", "medium", "high"].index(x))
Escalate(level, to) == IF LevelIndex(to) > LevelIndex(level) THEN to ELSE level

dangerous_keywords ==
  << "million", "billion", "trillion", "quadrillion",
     "infinite", "unlimited", "endless", "forever",
     "enumerate all", "list all", "all possible",
     "every single", "every possible", "all combinations",
     "all permutations", "brute force" >>

action_words ==
  << "repeat", "generate", "create", "list", "enumerate",
     "calculate", "compute", "expand", "output", "print",
     "write", "show", "display" >>

\* magnitude_words, in declaration order; the magnitude is 10^exp.
magnitude_words ==
  << [word |-> "million", exp |-> 6],
     [word |-> "billion", exp |-> 9],
     [word |-> "trillion", exp |-> 12] >>

\* re.findall(r'\d{n,}', s): the maximal digit runs of at least n digits.
RECURSIVE DigitRunsFrom(_, _, _)
DigitRunsFrom(s, i, n) ==
  LET starts == {j \in i..Len(s) :
                   /\ IsDigit(Char(s, j))
                   /\ (j = i \/ ~IsDigit(Char(s, j - 1)))
                   /\ RunEnd(s, j, Digits) - j + 1 >= n}
  IN  IF starts = {} THEN << >>
      ELSE <<SubSeq(s, Min(starts), RunEnd(s, Min(starts), Digits))>>
             \o DigitRunsFrom(s, RunEnd(s, Min(starts), Digits) + 1, n)

\* ', '.join(l[:3])
JoinFirst3(l) ==
  IF Len(l) = 1 THEN l[1]
  ELSE IF Len(l) = 2 THEN l[1] \o ", " \o l[2]
  ELSE l[1] \o ", " \o l[2] \o ", " \o l[3]

\* n * 10^p > max, evaluated without leaving the 32-bit integers.
RECURSIVE MulExceeds(_, _, _)
MulExceeds(n, p, max) ==
  IF n > max THEN TRUE
  ELSE IF p = 0 \/ n = 0 THEN FALSE
  ELSE MulExceeds(n * 10, p - 1, max)

\* The first character of s from i on that is not "0" (Len(s) + 1 if none).
SkipZeros(s, i) == RunEnd(s, i, {"0"}) + 1

\* int(num_str) > max, for a digit string of any length.
IntExceeds(num_str, max) ==
  LET z == SkipZeros(num_str, 1)
      sig == SubSeq(num_str, z, Len(num_str))
  IN  IF Len(sig) > 9 THEN TRUE ELSE ParseInt(sig) > max

\* Rule 1: prompt length, for a detector constructed with max_length.
RuleLength(max_length, text, st) ==
  IF Len(text) > max_length
    THEN [st EXCEPT !.reasons = Append(@, "Prompt too long"),
                    !.risk_level = "high"]
    ELSE st

\* for num_str in large_numbers: the first number over the limit, if any.
AnyExceeds(large_numbers) ==
  \E k \in 1..Len(large_numbers) :
     IntExceeds(large_numbers[k], RESOURCE_MAX_NUMBER_SIZE)

FirstExceeding(large_numbers) ==
  large_numbers[Min({k \in 1..Len(large_numbers) :
                       IntExceeds(large_numbers[k], RESOURCE_MAX_NUMBER_SIZE)})]

\* Rule 2: large numbers.
RuleLargeNumbers(text, st) ==
  LET large_numbers == DigitRunsFrom(text, 1, 6)
  IN  IF large_numbers = << >> THEN st
      ELSE LET st1 == [reasons |-> Append(st.reasons,
                          "Large numbers detected: " \o JoinFirst3(large_numbers)),
                       risk_level |-> Escalate(st.risk_level, "medium"),
                       flagged_text |-> <<large_numbers[1]>>]
           IN  IF AnyExceeds(large_numbers)
                 THEN [st1 EXCEPT
                         !.reasons = Append(@, "Number exceeds limit: "
                                               \o FirstExceeding(large_numbers)),
                         !.risk_level = "high"]
                 ELSE st1

\* One attempt of (\d+(?:\.\d+)?)\s*word at position i: the end of the
\* number when the pattern matches there, 0 when it does not.
CoefficientEnd(t, i, word) ==
  IF ~(i <= Len(t) /\ IsDigit(Char(t, i))) THEN 0
  ELSE LET d1 == RunEnd(t, i, Digits)
           d2 == IF d1 + 2 <= Len(t) /\ Char(t, d1 + 1) = "."
                    /\ IsDigit(Char(t, d1 + 2))
                   THEN RunEnd(t, d1 + 2, Digits)
                   ELSE d1
           w == RunEnd(t, d2 + 1, Whitespace)
       IN  IF StartsAt(t, w + 1, word) THEN d2 ELSE 0

\* re.findall(pattern, text_lower)[0], as <<>> or <<number>>.
FirstCoefficient(t, word) ==
  LET at == {i \in 1..Len(t) : CoefficientEnd(t, i, word) > 0}
  IN  IF at = {} THEN << >>
      ELSE <<SubSeq(t, Min(at), CoefficientEnd(t, Min(at), word))>>

\* float(c) * 10^exp > max, for c = digits or digits.digits
CoefficientExceeds(c, exp, max) ==
  LET dots == {i \in 1..Len(c) : Char(c, i) = "."}
      ip == IF dots = {} THEN c ELSE SubSeq(c, 1, Min(dots) - 1)
      fp == IF dots = {} THEN "" ELSE SubSeq(c, Min(dots) + 1, Len(c))
      all == ip \o fp
      z == SkipZeros(all, 1)
      sig == SubSeq(all, z, Len(all))
      k == Len(fp)
  IN  IF sig = "" THEN FALSE
      ELSE IF exp >= k
        THEN (Len(sig) > 9) \/ MulExceeds(ParseInt(sig), exp - k, max)
      ELSE \* more decimals than the magnitude has zeros
        LET keep == Len(sig) - (k - exp)
        IN  IF keep <= 0 THEN FALSE
            ELSE \/ IntExceeds(SubSeq(sig, 1, keep), max)
                 \/ /\ ParseInt(SubSeq(sig, 1, keep)) = max
                    /\ SkipZeros(sig, keep + 1) <= Len(sig)

\* The body of "for word, magnitude in magnitude_words.items()".
MagnitudeStep(t, st, mw) ==
  IF ~Contains(t, mw.word) THEN st
  ELSE LET matches == FirstCoefficient(t, mw.word)
       IN  IF matches # << >>
             THEN IF CoefficientExceeds(matches[1], mw.exp, RESOURCE_MAX_NUMBER_SIZE)
                    THEN [reasons |-> Append(st.reasons,
                             "Excessive magnitude: " \o matches[1] \o " " \o mw.word),
                          risk_level |-> "high",
                          flagged_text |-> <<matches[1] \o " " \o mw.word>>]
                    ELSE st
             ELSE [st EXCEPT
                     !.reasons = Append(@, "Magnitude keyword detected: '"
                                           \o mw.word \o "'"),
                     !.risk_level = Escalate(@, "medium")]

RECURSIVE MagnitudeLoop(_, _, _)
MagnitudeLoop(t, st, k) ==
  IF k > Len(magnitude_words) THEN st
  ELSE MagnitudeLoop(t, MagnitudeStep(t, st, magnitude_words[k]), k + 1)

\* Rule 3: magnitude words.
RuleMagnitude(text_lower, st) == MagnitudeLoop(text_lower, st, 1)

\* A variant of KeywordStep that assigns "medium" instead of raising to it.
KeywordStepAssign(t, st, keyword) ==
  IF Contains(t, keyword)
    THEN [reasons |-> Append(st.reasons, "Dangerous keyword: '" \o keyword \o "'"),
          risk_level |-> "medium",
          flagged_text |-> IF st.flagged_text = << >> THEN <<keyword>>
                           ELSE st.flagged_text]
    ELSE st

KeywordStep(t, st, keyword) ==
  IF Contains(t, keyword)
    THEN [reasons |-> Append(st.reasons, "Dangerous keyword: '" \o keyword \o "'"),
          risk_level |-> Escalate(st.risk_level, "medium"),
          flagged_text |-> IF st.flagged_text = << >> THEN <<keyword>>
                           ELSE st.flagged_text]
    ELSE st

RECURSIVE KeywordLoop(_, _, _)
KeywordLoop(t, st, k) ==
  IF k > Len(dangerous_keywords) THEN st
  ELSE KeywordLoop(t, KeywordStep(t, st, dangerous_keywords[k]), k + 1)

\* Rule 4: dangerous keywords.
RuleKeywords(text_lower, st) == KeywordLoop(text_lower, st, 1)

\* The first p >= from where four digits start, with no newline in
\* from..p-1 (the lazy .*? cannot cross one); 0 if there is none.
FourDigitsAfter(t, from) ==
  LET ps == {p \in from..(Len(t) - 3) :
               /\ \A q \in p..(p + 3) : IsDigit(Char(t, q))
               /\ \A q \in from..(p - 1) : Char(t, q) # "\n"}
  IN  IF ps = {} THEN 0 ELSE Min(ps)

\* One attempt of action\s+.*?(\d{4,}) at position i: the start of the
\* captured number, 0 when the pattern does not match there.
ActionNumberAt(t, i, action) ==
  IF ~StartsAt(t, i, action) THEN 0
  ELSE LET a == i + Len(action) - 1
           w == RunEnd(t, a + 1, Whitespace)
       IN  IF w = a THEN 0 ELSE FourDigitsAfter(t, w + 1)

\* re.findall(pattern, text_lower)[0], as <<>> or <<number>>.
FirstActionNumber(t, action) ==
  LET at == {i \in 1..Len(t) : ActionNumberAt(t, i, action) > 0}
  IN  IF at = {} THEN << >>
      ELSE LET p == ActionNumberAt(t, Min(at), action)
           IN  <<SubSeq(t, p, RunEnd(t, p, Digits))>>

ActionStep(t, st, action) ==
  LET matches == FirstActionNumber(t, action)
  IN  IF matches # << >>
        THEN [reasons |-> Append(st.reasons, "Dangerous pattern: '" \o action
                                   \o "' with large number " \o matches[1]),
              risk_level |-> "high",
              flagged_text |-> IF st.flagged_text = << >>
                                 THEN <<action \o " " \o matches[1]>>
                                 ELSE st.flagged_text]
        ELSE st

RECURSIVE ActionLoop(_, _, _)
ActionLoop(t, st, k) ==
  IF k > Len(action_words) THEN st
  ELSE ActionLoop(t, ActionStep(t, st, action_words[k]), k + 1)

\* Rule 5: action word followed by a number of four or more digits.
RuleActions(text_lower, st) == ActionLoop(text_lower, st, 1)

\* re.search(r'(all|every)\s+(possible|combinations?|permutations?|passwords?)', t)
AllPatternMatches(t) ==
  \E i \in 1..Len(t) : \E q \in {"all", "every"} :
     /\ StartsAt(t, i, q)
     /\ LET a == i + Len(q) - 1
            w == RunEnd(t, a + 1, Whitespace)
        IN  /\ w > a
            /\ \E obj \in {"possible", "combination", "permutation", "password"} :
                  StartsAt(t, w + 1, obj)

\* Rule 6: exhaustive enumeration.
RuleEnumeration(text_lower, st) ==
  IF AllPatternMatches(text_lower)
    THEN [st EXCEPT
            !.reasons = Append(@, "Request for exhaustive enumeration detected"),
            !.risk_level = "high"]
    ELSE st

\* A variant of ResourceExhaustionResult where only "high" is dangerous.
ResourceExhaustionResultHighOnly(st) ==
  [is_dangerous |-> st.risk_level = "high",
   risk_level |-> st.risk_level,
   reasons |-> st.reasons,
   flagged_text |-> st.flagged_text]

\* Lines 310-317: the result of the check, from the state the rules leave.
ResourceExhaustionResult(st) ==
  [is_dangerous |-> Len(st.reasons) > 0,
   risk_level |-> st.risk_level,
   reasons |-> st.reasons,
   flagged_text |-> st.flagged_text]

\* Lines 236-238: the locals a call of check starts from.
NewCheckState ==
  [reasons |-> << >>, risk_level |-> "low", flagged_text |-> << >>]

\* Lines 236-308: the six rules in the order of the code, on the text and
\* its lower case, for a detector constructed with max_length.
ApplyRules(max_length, text, text_lower) ==
  RuleEnumeration(text_lower,
    RuleActions(text_lower,
      RuleKeywords(text_lower,
        RuleMagnitude(text_lower,
          RuleLargeNumbers(text,
            RuleLength(max_length, text, NewCheckState))))))

\* Rule k of the six, applied to state st of a check of text.
RuleAt(k, max_length, text, st) ==
  CASE k = 1 -> RuleLength(max_length, text, st)
    [] k = 2 -> RuleLargeNumbers(text, st)
    [] k = 3 -> RuleMagnitude(Lower(text), st)
    [] k = 4 -> RuleKeywords(Lower(text), st)
    [] k = 5 -> RuleActions(Lower(text), st)
    [] k = 6 -> RuleEnumeration(Lower(text), st)

\* ResourceExhaustionDetector(max_length, RESOURCE_MAX_NUMBER_SIZE).check(text)
ExhaustionCheck(max_length, text) ==
  ResourceExhaustionResult(ApplyRules(max_length, text, Lower(text)))

(***************************************************************************)
(* Links: the chain's stage condition and link_safety_plugin.              *)
(***************************************************************************)
\* \w of the re module, for ASCII text.
IsWord(c) == IsLetter(c) \/ IsDigit(c) \/ c = "_"

HexDigits == Digits \cup {"a", "b", "c", "d", "e", "f", "A", "B", "C", "D", "E", "F"}

\* re.search(LINK_DETECTION_REGEX, user_text, re.IGNORECASE), for
\* (https?://|//|www\.)[^\s]+|[a-zA-Z0-9.-]+\.(com|org|net|edu|io|jpeg|png|jpg)
LinkPresent(user_text) ==
  LET t == Lower(user_text)
  IN  \/ \E i \in 1..Len(t) : \E pre \in {"http://", "https://", "//", "www."} :
            /\ StartsAt(t, i, pre)
            /\ i + Len(pre) <= Len(t)
            /\ Char(t, i + Len(pre)) \notin Whitespace
      \/ \E d \in 2..Len(t) :
            /\ Char(t, d) = "."
            /\ LET c == Char(t, d - 1)
               IN  IsLetter(c) \/ IsDigit(c) \/ c = "." \/ c = "-"
            /\ \E tld \in {"com", "org", "net", "edu", "io", "jpeg", "png", "jpg"} :
                  StartsAt(t, d + 1, tld)

\* The end of the longest (?:[-\w.]|(?:%[\da-fA-F]{2}))* that starts at i.
RECURSIVE HostEnd(_, _)
HostEnd(s, i) ==
  IF i > Len(s) THEN i - 1
  ELSE IF IsWord(Char(s, i)) \/ Char(s, i) = "-" \/ Char(s, i) = "."
    THEN HostEnd(s, i + 1)
  ELSE IF /\ Char(s, i) = "%"
          /\ i + 2 <= Len(s)
          /\ Char(s, i + 1) \in HexDigits
          /\ Char(s, i + 2) \in HexDigits
    THEN HostEnd(s, i + 3)
  ELSE i - 1

\* The end of the longest [/\w\.-]* that starts at i.
PathEnd(s, i) ==
  LET stops == {j \in i..Len(s) :
                  ~(IsWord(Char(s, j)) \/ Char(s, j) \in {"/", ".", "-"})}
  IN  IF stops = {} THEN Len(s) ELSE Min(stops) - 1

\* The end of the longest \S* that starts at i.
NonSpaceEnd(s, i) ==
  LET stops == {j \in i..Len(s) : Char(s, j) \in Whitespace}
  IN  IF stops = {} THEN Len(s) ELSE Min(stops) - 1

\* One attempt of url_pattern at position i: the end of the match, 0 when
\* https?://(?:[-\w.]|(?:%[\da-fA-F]{2}))+[/\w\.-]*(?:\?\S*)? does not match.
UrlEndAt(s, i) ==
  LET h == IF StartsAt(s, i, "http://") THEN i + 7
           ELSE IF StartsAt(s, i, "https://") THEN i + 8
           ELSE 0
  IN  IF h = 0 THEN 0
      ELSE LET e1 == HostEnd(s, h)
           IN  IF e1 < h THEN 0
               ELSE LET e2 == PathEnd(s, e1 + 1)
                    IN  IF e2 + 1 <= Len(s) /\ Char(s, e2 + 1) = "?"
                          THEN NonSpaceEnd(s, e2 + 2)
                          ELSE e2

\* re.findall(url_pattern, user_text)
RECURSIVE FindLinksFrom(_, _)
FindLinksFrom(s, i) ==
  LET starts == {j \in i..Len(s) : UrlEndAt(s, j) > 0}
  IN  IF starts = {} THEN << >>
      ELSE <<SubSeq(s, Min(starts), UrlEndAt(s, Min(starts)))>>
             \o FindLinksFrom(s, UrlEndAt(s, Min(starts)) + 1)

SAFE_DOMAINS == <<"imgur.com", "i.imgur.com">>
SAFE_EXTENSIONS == <<".png", ".jpg", ".jpeg", ".gif", ".webp">>

LINK_BLOCK_MESSAGE ==
  "I'm sorry, but your message contains a link that does not meet our safety requirements. Currently, I only support links from Imgur or direct image files (PNG, JPG, JPEG, GIF)."

\* is_link_safe(url); a url found by url_pattern holds no whitespace.
is_link_safe(url) ==
  LET u == Lower(url)
  IN  \/ \E k \in 1..Len(SAFE_DOMAINS) : Contains(u, SAFE_DOMAINS[k])
      \/ \E k \in 1..Len(SAFE_EXTENSIONS) : \E i \in 1..Len(u) :
            /\ StartsAt(u, i, SAFE_EXTENSIONS[k])
            /\ LET e == i + Len(SAFE_EXTENSIONS[k])
               IN  e = Len(u) + 1 \/ Char(u, e) = "?"

(***************************************************************************)
(* Payloads, messages and results of the pre-invoke contract.              *)
(***************************************************************************)
\* None, where the other values are payload objects (positive integers).
None == 0

\* Message(role=role, content=TextContent(type="text", text=text))
Message(role, text) == [shape |-> "text", role |-> role, text |-> text]

\* The last message the runtime hands over: a Message whose content is a
\* TextContent ("text") or a plain string ("str"), or a mapping ("dict")
\* whose "content" is a string.
LastMessages ==
  {[shape |-> "text", role |-> "user", text |-> t] :
     t \in {"", "Hi", "a.io", "1 million", "Hi, how are you?",
            "see http://evil.com/x", "pic https://imgur.com/a.png",
            "Generate all possible combinations of 10 million passwords"}}
  \cup {[shape |-> "str", role |-> "user", text |-> t] :
          t \in {"", "a.io", "show me 12345"}}
  \cup {[shape |-> "dict", role |-> "user", text |-> t] :
          t \in {"", "Hi", "list 123456 items"}}

\* An earlier message of the conversation.
PriorMessage == Message("assistant", "How can I help?")

Payloads ==
  {<< >>} \cup
  {[k \in 1..n |-> IF k < n THEN PriorMessage ELSE last] :
     n \in 1..MaxMsgs, last \in LastMessages}

\* AgentPreInvokeResult(continue_processing=c, modified_payload=p)
AgentPreInvokeResult(c, p) == [continue_processing |-> c, modified_payload |-> p]

NoResult == [none |-> TRUE]
Raised == [raised |-> TRUE]
NoReport == [none |-> TRUE]

(***************************************************************************)
(* The remote classifier: DetectionResult and WatsonxTextDetection.detect. *)
(***************************************************************************)
\* What the detection endpoint can answer to one request: a transport or
\* HTTP failure, or a 2xx body with its detection records.
ServiceAnswers ==
  { [ok |-> FALSE, detections |-> << >>],
    [ok |-> TRUE, detections |-> << >>],
    [ok |-> TRUE, detections |-> <<[detection |-> "Yes", score |-> 10000]>>],
    [ok |-> TRUE, detections |-> <<[detection |-> "Yes", score |-> 60000]>>],
    [ok |-> TRUE, detections |-> <<[detection |-> "Yes", score |-> 79996]>>],
    [ok |-> TRUE, detections |-> <<[detection |-> "No", score |-> 90000]>>],
    [ok |-> TRUE, detections |-> <<[detection |-> "has_HAP", score |-> 60000]>>],
    [ok |-> TRUE, detections |-> <<[detection |-> "No", score |-> 90000],
                                   [detection |-> "Yes", score |-> 10000]>>],
    \* a hit whose score is 0, or missing: d.get("score", 0)
    [ok |-> TRUE, detections |-> <<[detection |-> "Yes", score |-> 0]>>] }

Eventful(answer) == ~answer.ok \/ answer.detections # << >>

\* A variant of Detect that drops the message of the exception.
DetectNoError(text, answer) ==
  [input_text |-> text,
   detections |-> IF answer.ok THEN answer.detections ELSE << >>,
   success |-> answer.ok, error |-> << >>]

\* WatsonxTextDetection.detect
Detect(text, answer) ==
  IF answer.ok
    THEN [input_text |-> text, detections |-> answer.detections,
          success |-> TRUE, error |-> << >>]
    ELSE [input_text |-> text, detections |-> << >>,
          success |-> FALSE, error |-> <<"RequestException">>]

\* A variant of has_risk that counts a hit only from a score of 0.5.
has_risk_scored(r) ==
  IF ~r.success \/ r.detections = << >> THEN FALSE
  ELSE \E k \in 1..Len(r.detections) :
          /\ r.detections[k].detection \in {"Yes", "has_HAP"}
          /\ r.detections[k].score >= 50000

\* DetectionResult.has_risk
has_risk(r) ==
  IF ~r.success \/ r.detections = << >> THEN FALSE
  ELSE \E k \in 1..Len(r.detections) :
          \/ r.detections[k].detection = "Yes"
          \/ r.detections[k].detection = "has_HAP"

Max(S) == CHOOSE x \in S : \A y \in S : x >= y

\* max([d.get("score", 0) for d in result.detections]) if result.detections else 0
MaxRecordScore(detections) ==
  IF detections = << >> THEN 0
  ELSE Max({detections[k].score : k \in 1..Len(detections)})

\* round(x, 4) for a score in units of 10^-5: to the nearest multiple of
\* 10, a half going to the even neighbour.
Round4(x) ==
  LET r == x % 10
      base == x - r
  IN  IF r < 5 THEN base
      ELSE IF r > 5 THEN base + 10
      ELSE IF (base \div 10) % 2 = 0 THEN base ELSE base + 10

(***************************************************************************)
(* _run_detections: the remote categories in the order they are called.    *)
(***************************************************************************)
RemoteCategories ==
  << [key |-> "harm", enabled_name |-> "harm", method |-> "granite_guardian",
      enabled |-> ENABLE_HARM_DETECTION, threshold |-> THRESHOLD_HARM],
     [key |-> "social_bias", enabled_name |-> "social_bias",
      method |-> "granite_guardian",
      enabled |-> ENABLE_SOCIAL_BIAS_DETECTION, threshold |-> THRESHOLD_SOCIAL_BIAS],
     [key |-> "jailbreak", enabled_name |-> "jailbreak",
      method |-> "granite_guardian",
      enabled |-> ENABLE_JAILBREAK_DETECTION, threshold |-> THRESHOLD_JAILBREAK],
     [key |-> "Hate/Abuse/Profanity", enabled_name |-> "hap",
      method |-> "hap_detector",
      enabled |-> ENABLE_HAP_DETECTION, threshold |-> THRESHOLD_HAP],
     [key |-> "Personal information", enabled_name |-> "pii",
      method |-> "pii_detector",
      enabled |-> ENABLE_PII_DETECTION, threshold |-> THRESHOLD_PII],
     [key |-> "Prompt injection", enabled_name |-> "prompt_injection",
      method |-> "prompt_safety_risk",
      enabled |-> ENABLE_PROMPT_INJECTION_DETECTION,
      threshold |-> THRESHOLD_PROMPT_INJECTION] >>

\* The first enabled category at or after position c (Len + 1 if none).
RECURSIVE NextEnabled(_)
NextEnabled(c) ==
  IF c > Len(RemoteCategories) \/ RemoteCategories[c].enabled THEN c
  ELSE NextEnabled(c + 1)

\* str.upper(), for the names of the risk levels.
UpperLevel(l) ==
  IF l = "low" THEN "LOW" ELSE IF l = "medium" THEN "MEDIUM" ELSE "HIGH"

\* text[:100] + "..." if len(text) > 100 else text
Truncate(text) ==
  IF Len(text) > 100 THEN SubSeq(text, 1, 100) \o "..." ELSE text

\* results["detections"]["Resource exhaustion"]
ExhaustionEntry(er) ==
  [name |-> "Resource exhaustion",
   detected |-> er.is_dangerous,
   risk_level |-> UpperLevel(er.risk_level),
   reasons |-> er.reasons,
   flagged_text |-> er.flagged_text,
   method |-> "local",
   threshold |-> "N/A"]

\* results["detections"][key] of a remote category that answered.
RemoteEntry(category, r) ==
  [name |-> category.key,
   detected |-> has_risk(r),
   max_score |-> Round4(MaxRecordScore(r.detections)),
   detection_count |-> Len(r.detections),
   method |-> category.method,
   threshold |-> category.threshold]

\* A variant of RecordDetection that records a failed call as zero risk.
RecordDetectionAsZero(results, category, r) ==
  [results EXCEPT
     !.enabled_detections = Append(@, category.enabled_name),
     !.detections = Append(@, RemoteEntry(category, r))]

\* Lines 432-449 (and 453-468, 472-487, 492-513): the category joins
\* enabled_detections before its call, and the detections mapping only when
\* the call succeeded.
RecordDetection(results, category, r) ==
  [results EXCEPT
     !.enabled_detections = Append(@, category.enabled_name),
     !.detections =
        IF r.success
          THEN Append(@,
                 IF category.key = "Prompt injection"
                   THEN [k \in DOMAIN RemoteEntry(category, r)
                               \cup {"system_prompt_used"} |->
                           IF k = "system_prompt_used" THEN "default"
                           ELSE RemoteEntry(category, r)[k]]
                   ELSE RemoteEntry(category, r))
          ELSE @]

\* detection.get("detected", False)
GetDetected(d) == IF "detected" \in DOMAIN d THEN d.detected ELSE FALSE

\* detection.get("max_score", 0)
GetMaxScore(d) == IF "max_score" \in DOMAIN d THEN d.max_score ELSE 0

\* any(detection.get("detected", False) for detection in detections.values())
AnyRiskDetected(detections) ==
  \E k \in 1..Len(detections) : GetDetected(detections[k])

\* A variant of MaxOverallScore that takes the scores of all categories.
MaxOverallScoreAll(detections) ==
  Max({0} \cup {GetMaxScore(detections[k]) : k \in 1..Len(detections)})

\* max([... for detection in detections.values() if detected], default=0)
MaxOverallScore(detections) ==
  LET scores == {GetMaxScore(detections[k]) :
                   k \in {j \in 1..Len(detections) : GetDetected(detections[j])}}
  IN  IF scores = {} THEN 0 ELSE Max(scores)

\* A variant of Verdict whose MEDIUM band leaves out its lower end.
VerdictAboveMedium(max_overall_score) ==
  IF max_overall_score >= HIGH_SCORE
    THEN [overall_risk |-> "HIGH", recommendation |-> "BLOCK",
          response |-> BLOCK_RESPONSE]
  ELSE IF max_overall_score > MEDIUM_SCORE
    THEN [overall_risk |-> "MEDIUM", recommendation |-> "REVIEW",
          response |-> REVIEW_RESPONSE]
  ELSE [overall_risk |-> "LOW", recommendation |-> "ALLOW",
        response |-> ALLOW_RESPONSE]

\* A variant of Verdict whose HIGH band starts at the MEDIUM threshold.
VerdictBlocksMedium(max_overall_score) ==
  IF max_overall_score >= MEDIUM_SCORE
    THEN [overall_risk |-> "HIGH", recommendation |-> "BLOCK",
          response |-> BLOCK_RESPONSE]
  ELSE [overall_risk |-> "LOW", recommendation |-> "ALLOW",
        response |-> ALLOW_RESPONSE]

\* Lines 526-541: the verdict the thresholds give: overall_risk,
\* recommendation, response.
Verdict(max_overall_score) ==
  IF max_overall_score >= HIGH_SCORE
    THEN [overall_risk |-> "HIGH", recommendation |-> "BLOCK",
          response |-> BLOCK_RESPONSE]
  ELSE IF max_overall_score >= MEDIUM_SCORE
    THEN [overall_risk |-> "MEDIUM", recommendation |-> "REVIEW",
          response |-> REVIEW_RESPONSE]
  ELSE [overall_risk |-> "LOW", recommendation |-> "ALLOW",
        response |-> ALLOW_RESPONSE]

\* key=lambda x: x[1].get("max_score", 0) if x[1].get("detected") else 0
ThreatKey(d) == IF GetDetected(d) THEN GetMaxScore(d) ELSE 0

\* max(results["detections"].items(), key=...)[0]: the first of the largest.
PrimaryThreat(detections) ==
  LET best == Max({ThreatKey(detections[k]) : k \in 1..Len(detections)})
  IN  detections[Min({k \in 1..Len(detections) :
                        ThreatKey(detections[k]) = best})].name

\* Lines 351-356: the report a call starts from.
InitialResults(text) ==
  [success |-> TRUE, input_text |-> Truncate(text),
   enabled_detections |-> << >>, detections |-> << >>]

\* Lines 379-386: the report of a dangerous exhaustion result.
ExhaustionReport(results) ==
  [k \in DOMAIN results \cup
         {"overall_risk", "recommendation", "primary_threat",
          "any_risk_detected", "max_score", "response"} |->
     CASE k = "overall_risk" -> "HIGH"
       [] k = "recommendation" -> "BLOCK"
       [] k = "primary_threat" -> "Resource exhaustion"
       [] k = "any_risk_detected" -> TRUE
       [] k = "max_score" -> EXHAUSTION_SCORE
       [] k = "response" -> BLOCK_RESPONSE
       [] OTHER -> results[k]]

\* Lines 515-554: the report after score aggregation.
AggregateReport(results) ==
  LET any_risk_detected == AnyRiskDetected(results.detections)
      max_overall_score == MaxOverallScore(results.detections)
      v == Verdict(max_overall_score)
      keys == {"overall_risk", "recommendation", "response",
               "any_risk_detected", "max_score"}
              \cup (IF any_risk_detected THEN {"primary_threat"} ELSE {})
  IN  [k \in DOMAIN results \cup keys |->
         CASE k = "overall_risk" -> v.overall_risk
           [] k = "recommendation" -> v.recommendation
           [] k = "response" -> v.response
           [] k = "any_risk_detected" -> any_risk_detected
           [] k = "max_score" -> Round4(max_overall_score)
           [] k = "primary_threat" -> PrimaryThreat(results.detections)
           [] OTHER -> results[k]]

\* {"success": False, "error": error}
FailureReport(error) == [success |-> FALSE, error |-> error]

\* A variant of ExceptionReport that swallows the exception.
ExceptionReportSwallowed(e) == [success |-> TRUE, error |-> e]

\* Lines 556-557: except Exception as e: the report of an exception raised
\* anywhere in the body of _run_detections.
ExceptionReport(e) == FailureReport(e)

(***************************************************************************)
(* The heap of payload objects.  heap[id] is the messages list of payload  *)
(* id; payload 1 is the caller's instance.                                 *)
(***************************************************************************)
\* payload.model_copy(deep=True): the heap with the copy as its last object.
ModelCopy(h, id) == Append(h, h[id])

\* payload.messages[-1] = msg
ReplaceLast(h, id, msg) == [h EXCEPT ![id] = [@ EXCEPT ![Len(@)] = msg]]

\* A variant of GateBlockHeap that writes the notice into the payload it was
\* given before it copies it.
GateBlockHeapInPlace(h, id, msg) == ModelCopy(ReplaceLast(h, id, msg), id)

\* A variant of DetailedBlockMessage without the primary threat.
DetailedBlockMessageNoThreat(block_message, primary_threat, guidance) ==
  block_message \o "\n\n" \o guidance

\* detect_risks_plugin, lines 661-666: the block notice goes into a copy.
GateBlockHeap(h, id, msg) == ReplaceLast(ModelCopy(h, id), Len(h) + 1, msg)

\* A variant of LinkBlockHeap that adds the block message after the last
\* message of the copy.
LinkBlockHeapAppended(h, id, msg) == Append(h, Append(h[id], msg))

\* link_safety_plugin, lines 78-82.
LinkBlockHeap(h, id, msg) == ReplaceLast(ModelCopy(h, id), Len(h) + 1, msg)

\* detect_risks_plugin, lines 657-659.
DetailedBlockMessage(block_message, primary_threat, guidance) ==
  block_message \o "\n\n" \o "Primary concern: " \o primary_threat \o ". "
    \o guidance

\* A variant of GateUserInput that takes a mapping by str(last_message).
GateUserInputByStr(last_message) ==
  CASE last_message.shape = "text" -> last_message.text
    [] last_message.shape = "str" -> last_message.text
    [] last_message.shape = "dict" ->
         "{'role': 'user', 'content': '" \o last_message.text \o "'}"

\* detect_risks_plugin, lines 605-620: the text of the last message.
GateUserInput(last_message) ==
  CASE last_message.shape = "text" -> last_message.text  \* content.text
    [] last_message.shape = "str" -> last_message.text   \* content
    [] last_message.shape = "dict" -> last_message.text  \* .get("content", "")

PLUGIN_CHAIN ==
  << [name |-> "detect_risks", condition |-> "always"],
     [name |-> "link_safety", condition |-> "if_link_present"] >>

\* A variant of StageCondition that invokes every stage.
StageConditionIgnored(condition, user_text) == TRUE

\* chain_plugins, lines 55-57: whether the stage is invoked.
StageCondition(condition, user_text) ==
  IF condition = "if_link_present" THEN LinkPresent(user_text) ELSE TRUE

\* A variant of ChainOutcome that does not return when a stage blocks.
ChainOutcomeNoStop(res, fr, cur) ==
  IF res = Raised
    THEN [done |-> TRUE, current_payload |-> cur,
          final_result |-> [fr EXCEPT !.continue_processing = FALSE]]
  ELSE IF ~res.continue_processing
    THEN [done |-> FALSE, current_payload |-> cur,
          final_result |-> AgentPreInvokeResult(FALSE, res.modified_payload)]
  ELSE [done |-> FALSE, final_result |-> fr,
        current_payload |-> IF res.modified_payload # None
                              THEN res.modified_payload ELSE cur]

\* A variant of ChainOutcome that keeps the payload it started with.
ChainOutcomeNoThread(res, fr, cur) ==
  IF res = Raised
    THEN [done |-> TRUE, current_payload |-> cur,
          final_result |-> [fr EXCEPT !.continue_processing = FALSE]]
  ELSE IF ~res.continue_processing
    THEN [done |-> TRUE, current_payload |-> cur,
          final_result |-> AgentPreInvokeResult(FALSE, res.modified_payload)]
  ELSE [done |-> FALSE, final_result |-> fr, current_payload |-> cur]

\* A variant of ChainOutcome that goes on after a stage raised.
ChainOutcomeFailOpen(res, fr, cur) ==
  IF res = Raised
    THEN [done |-> FALSE, current_payload |-> cur, final_result |-> fr]
  ELSE IF ~res.continue_processing
    THEN [done |-> TRUE, current_payload |-> cur,
          final_result |-> AgentPreInvokeResult(FALSE, res.modified_payload)]
  ELSE [done |-> FALSE, final_result |-> fr,
        current_payload |-> IF res.modified_payload # None
                              THEN res.modified_payload ELSE cur]

\* chain_plugins, lines 59-77: what the chain does with the outcome res of the
\* stage it called, given final_result fr and current_payload cur.  done
\* says that the chain returns final_result at once.
ChainOutcome(res, fr, cur) ==
  IF res = Raised
    THEN \* except Exception: fail closed, lines 73-77
         [done |-> TRUE, current_payload |-> cur,
          final_result |-> [fr EXCEPT !.continue_processing = FALSE]]
  ELSE IF ~res.continue_processing
    THEN \* lines 64-67
         [done |-> TRUE, current_payload |-> cur,
          final_result |-> AgentPreInvokeResult(FALSE, res.modified_payload)]
  ELSE \* lines 70-71
       [done |-> FALSE, final_result |-> fr,
        current_payload |-> IF res.modified_payload # None
                              THEN res.modified_payload ELSE cur]

\* detection_results.get(key, default)
Get(d, key, default) == IF key \in DOMAIN d THEN d[key] ELSE default

\* A variant of FailOpen that stops the request.
FailClosed(h) == [heap |-> h, result |-> AgentPreInvokeResult(FALSE, None)]

\* detect_risks_plugin, lines 632-638: the report says success false.  The
\* result is built with messages=..., which is no field of it.
FailOpen(h) == [heap |-> h, result |-> AgentPreInvokeResult(TRUE, None)]

\* A variant of PassThrough that puts the review warning in place of the
\* last message of the copy.
PassThroughWithWarning(h, a) ==
  [heap |-> ReplaceLast(ModelCopy(h, a), Len(h) + 1,
                        Message("user", REVIEW_RESPONSE.message)),
   result |-> AgentPreInvokeResult(TRUE, Len(h) + 1)]

\* detect_risks_plugin, lines 670-683: MEDIUM/REVIEW and LOW/ALLOW return an
\* unmodified deep copy.
PassThrough(h, a) ==
  [heap |-> ModelCopy(h, a), result |-> AgentPreInvokeResult(TRUE, Len(h) + 1)]

\* detect_risks_plugin, lines 631-683: the decision on report dr for payload
\* a of heap h: the heap and the result afterwards.
GateOutcome(h, a, dr) ==
  IF ~Get(dr, "success", FALSE) THEN FailOpen(h)
  ELSE LET risk == Get(dr, "overall_risk", "LOW")
           rec == Get(dr, "recommendation", "ALLOW")
           response_config == Get(dr, "response", << >>)
       IN  IF risk = "HIGH" \/ rec = "BLOCK"
             THEN LET block_message ==
                        Get(response_config, "message",
                            "Your input has been blocked due to safety concerns. Please reformulate your request.")
                      primary_threat == Get(dr, "primary_threat", "unknown")
                      guidance ==
                        Get(response_config, "guidance",
                            "Please review and modify your input.")
                      output_msg ==
                        Message("user",
                          DetailedBlockMessage(block_message, primary_threat,
                                               guidance))
                  IN  [heap |-> GateBlockHeap(h, a, output_msg),
                       result |-> AgentPreInvokeResult(FALSE, Len(h) + 1)]
           ELSE PassThrough(h, a)

\* A variant of HandlerOutcome that stops the request.
HandlerOutcomeFailClosed(h, a) ==
  [heap |-> ModelCopy(h, a), result |-> AgentPreInvokeResult(FALSE, Len(h) + 1)]

\* detect_risks_plugin, lines 685-692: the except clause.
HandlerOutcome(h, a) ==
  [heap |-> ModelCopy(h, a), result |-> AgentPreInvokeResult(TRUE, Len(h) + 1)]

\* A variant of LocalOutcome without the return for a short text.
LocalOutcomeNoSkip(text, er, results1) ==
  IF ENABLE_RESOURCE_EXHAUSTION_DETECTION /\ er.is_dangerous
    THEN [exhaustion_result |-> er, results |-> ExhaustionReport(results1),
          next |-> "gate_decide"]
  ELSE [exhaustion_result |-> er, results |-> results1,
        next |-> "rd_credentials"]

\* A variant of LocalOutcome without the return of a dangerous result.
LocalOutcomeNoReturn(text, er, results1) ==
  IF Len(text) < MIN_SIZE_MESSAGE
    THEN [exhaustion_result |-> er, results |-> results1,
          next |-> "gate_decide"]
  ELSE [exhaustion_result |-> er, results |-> results1,
        next |-> "rd_credentials"]

\* _run_detections, lines 378-391: the two returns of the local part, for
\* exhaustion result er and the report results1 built so far.  next says
\* where the call goes: back to the gate with the report, or on to the
\* credentials.
LocalOutcome(text, er, results1) ==
  IF ENABLE_RESOURCE_EXHAUSTION_DETECTION /\ er.is_dangerous
    THEN [exhaustion_result |-> er, results |-> ExhaustionReport(results1),
          next |-> "gate_decide"]
  ELSE IF Len(text) < MIN_SIZE_MESSAGE
    THEN [exhaustion_result |-> er, results |-> results1,
          next |-> "gate_decide"]
  ELSE [exhaustion_result |-> er, results |-> results1,
        next |-> "rd_credentials"]

\* A variant of LocalResults that leaves the local entry out of the report.
LocalResultsNoEntry(text, er) ==
  IF ENABLE_RESOURCE_EXHAUSTION_DETECTION
    THEN [InitialResults(text) EXCEPT
            !.enabled_detections = Append(@, "Resource exhaustion")]
    ELSE InitialResults(text)

\* _run_detections, lines 351-376: the report after the exhaustion check.
LocalResults(text, er) ==
  IF ENABLE_RESOURCE_EXHAUSTION_DETECTION
    THEN [InitialResults(text) EXCEPT
            !.enabled_detections = Append(@, "Resource exhaustion"),
            !.detections = Append(@, ExhaustionEntry(er))]
    ELSE InitialResults(text)

\* _run_detections, lines 349-391: the local part for text, given the
\* result er of the exhaustion check.
RunLocalWith(text, er) == LocalOutcome(text, er, LocalResults(text, er))

\* _run_detections, lines 349-391: the local part for text.
RunLocal(text) ==
  RunLocalWith(text, IF ENABLE_RESOURCE_EXHAUSTION_DETECTION
                       THEN ExhaustionCheck(RESOURCE_MAX_PROMPT_LENGTH, text)
                     ELSE [none |-> TRUE])

(***************************************************************************)
(* State.                                                                  *)
(***************************************************************************)

\* No call of check is being stepped through.
NoCheck == [none |-> TRUE]

\* No call of detect is under way: its result is a local of _run_detections.
NoDetect == [none |-> TRUE]

\* Before line 398 no credential has been read.
NoCredentials == [kind |-> "none"]

\* Lines 55-66: the module-level mappings that the reports refer to.
GlobalsInit ==
  [BLOCK_RESPONSE |-> BLOCK_RESPONSE, REVIEW_RESPONSE |-> REVIEW_RESPONSE]

\* The environment answers as it likes: no answer is fixed in advance.
NoPlan == [none |-> TRUE]

\* No request is parked: the process serves one request.
NoRequest == [none |-> TRUE]

\* A response body that is no JSON object.
Malformed == [malformed |-> TRUE]

VARIABLES
  entry,              \* the tool the runtime invoked
  input,              \* the messages of the caller's payload at the call
  heap,               \* the payload objects
  pc,                 \* the position of the request
  idx,                \* chain_plugins: position in PLUGIN_CHAIN
  current_payload,    \* chain_plugins: current_payload
  final_result,       \* chain_plugins: final_result
  result,             \* what the plugin called last returned (or Raised)
  arg,                \* the payload the running plugin was called with
  user_input,         \* detect_risks_plugin: user_input
  exhaustion_result,  \* _run_detections: exhaustion_result
  detection_results,  \* _run_detections: results / the gate's detection_results
  cat,                \* _run_detections: position in RemoteCategories
  eventful,           \* eventful answers of the remote service so far
  overall_risk,       \* detect_risks_plugin: overall_risk
  recommendation,     \* detect_risks_plugin: recommendation
  calls,              \* the calls made outside the process, in order
  errors,             \* the exceptions raised inside _run_detections, in order
  credentials,        \* api_key and instance_id as lines 398-410 left them
  failed,             \* the categories whose detect returned success False
  last_detect,        \* the latest answer of the service and what detect returned
  max_length,         \* the max_length the exhaustion detector is built with
  rule,               \* check: the rule that is applied next (0: no check)
  st,                 \* check: reasons, risk_level and flagged_text so far
  stages,             \* the stages the chain reached, in order
  outcomes,           \* the outcomes of the stages the chain invoked, in order
  handled,            \* detect_risks_plugin ran its except clause
  returned,           \* what the runtime got back
  globals,            \* BLOCK_RESPONSE and REVIEW_RESPONSE of the module
  plan,               \* the answers the environment has for this request
  who,                \* the request that is running (0: the only one)
  parked              \* the requests that wait for the processor

vars == << entry, input, heap, pc, idx, current_payload, final_result, result,
           arg, user_input, exhaustion_result, detection_results, cat,
           eventful, overall_risk, recommendation, calls, errors, credentials,
           failed, last_detect, max_length, rule, st, stages, outcomes, handled,
           returned, globals, plan, who, parked >>

chain_vars == << idx, current_payload, final_result, stages, outcomes >>
detect_vars == << exhaustion_result, detection_results, cat, eventful, calls,
                 errors, credentials, failed, last_detect >>
check_vars == << max_length, rule, st >>
pair_vars == << plan, who, parked >>

gate_vars == << user_input, overall_risk, recommendation, handled >>

Entries == {"chain_plugins", "detect_risks_plugin"}

\* What the environment can do at one point of a request: any of options,
\* or the one that the plan of the request fixed for that point.
Offered(options, point) == IF plan = NoPlan THEN options ELSE {plan[point]}

\* What the detection endpoint can answer for the category at hand.
AnswersOffered ==
  IF plan = NoPlan THEN ServiceAnswers ELSE {plan.answers[cat]} \ {Malformed}

\* Lines 384, 529, 533: results["response"] = BLOCK_RESPONSE, or
\* REVIEW_RESPONSE: the report holds the module's mapping itself, as it is
\* when the line runs.  The mapping of an ALLOW report is built in the call.
BindResponse(report, g) ==
  IF "response" \notin DOMAIN report THEN report
  ELSE IF report.recommendation = "BLOCK"
    THEN [report EXCEPT !.response = g.BLOCK_RESPONSE]
  ELSE IF report.recommendation = "REVIEW"
    THEN [report EXCEPT !.response = g.REVIEW_RESPONSE]
  ELSE report

\* A variant of GlobalsAfterReport that notes the threat of a blocking
\* report in the message of the module's mapping.
GlobalsAfterReportNoted(g, report) ==
  IF Get(report, "recommendation", "ALLOW") = "BLOCK"
    THEN [g EXCEPT !.BLOCK_RESPONSE.message =
                     @ \o " (" \o Get(report, "primary_threat", "unknown") \o ")"]
  ELSE g

\* Lines 349-557: _run_detections assigns the module's mappings into its
\* report and writes nothing into them.
GlobalsAfterReport(g, report) == g

\* A variant of GlobalsAfterGate that keeps the guidance of the block it
\* built, with the threat named, in the module's mapping.
GlobalsAfterGateKept(g, report) ==
  IF Get(report, "success", FALSE)
       /\ Get(report, "recommendation", "ALLOW") = "BLOCK"
    THEN [g EXCEPT !.BLOCK_RESPONSE.guidance =
                     Get(report, "primary_threat", "unknown") \o ". " \o @]
  ELSE g

\* Lines 641-683: the gate reads message and guidance of the report's
\* response with get, and writes nothing into it.
GlobalsAfterGate(g, report) == g

Init ==
  /\ entry \in Entries
  /\ input \in Payloads
  /\ heap = <<input>>
  /\ pc = IF entry = "chain_plugins" THEN "chain_loop" ELSE "gate_extract"
  /\ idx = 1
  /\ current_payload = 1
  /\ final_result = AgentPreInvokeResult(TRUE, None)
  /\ result = NoResult
  /\ arg = 1
  /\ user_input = ""
  /\ exhaustion_result = [none |-> TRUE]
  /\ detection_results = NoReport
  /\ cat = 1
  /\ eventful = 0
  /\ overall_risk = ""
  /\ recommendation = ""
  /\ calls = << >>
  /\ errors = << >>
  /\ credentials = NoCredentials
  /\ failed = << >>
  /\ last_detect = NoDetect
  /\ max_length = RESOURCE_MAX_PROMPT_LENGTH
  /\ rule = 0
  /\ st = NoCheck
  /\ stages = << >>
  /\ outcomes = << >>
  /\ handled = FALSE
  /\ returned = NoResult
  /\ globals = GlobalsInit
  /\ plan = NoPlan
  /\ who = 0
  /\ parked = << >>

(***************************************************************************)
(* chain_plugins                                                           *)
(***************************************************************************)
\* Lines 47-61: one pass of the loop head, up to the call of the stage.
\* last_msg.content of a mapping raises outside the try block.
ChainLoop ==
  /\ pc = "chain_loop"
  /\ idx <= Len(PLUGIN_CHAIN)
  /\ LET messages == heap[current_payload]
         last_msg == messages[Len(messages)]
         stage == PLUGIN_CHAIN[idx]
     IN  IF messages # << >> /\ last_msg.shape = "dict"
           THEN /\ pc' = "raised"
                /\ UNCHANGED << idx, stages, arg >>
         ELSE LET user_text == IF messages # << >> THEN last_msg.text ELSE ""
                  run == StageCondition(stage.condition, user_text)
              IN  /\ stages' = Append(stages,
                                 [name |-> stage.name,
                                  payload |-> current_payload,
                                  text |-> user_text,
                                  invoked |-> run])
                  /\ IF ~run
                       THEN /\ idx' = idx + 1
                            /\ UNCHANGED << pc, arg >>
                       ELSE /\ arg' = current_payload
                            /\ pc' = IF stage.name = "detect_risks"
                                       THEN "gate_extract" ELSE "link_safety"
                            /\ UNCHANGED idx
  /\ UNCHANGED << entry, check_vars, pair_vars, globals, input, heap, current_payload, final_result, result,
                  outcomes, detect_vars, gate_vars, returned >>

\* Lines 63-77: what the chain does with the outcome of the stage.
ChainAfter ==
  /\ pc = "chain_after"
  /\ outcomes' = Append(outcomes, [idx |-> idx, result |-> result])
  /\ \E o \in {ChainOutcome(result, final_result, current_payload)} :
         /\ final_result' = o.final_result
         /\ current_payload' = o.current_payload
         /\ IF o.done
              THEN /\ returned' = o.final_result
                   /\ pc' = "done"
                   /\ UNCHANGED idx
              ELSE /\ idx' = idx + 1
                   /\ pc' = "chain_loop"
                   /\ UNCHANGED returned
  /\ UNCHANGED << entry, check_vars, pair_vars, globals, input, heap, result, arg, detect_vars, gate_vars,
                  stages >>

\* Lines 79-80: every stage continued or was skipped.
ChainReturn ==
  /\ pc = "chain_loop"
  /\ idx > Len(PLUGIN_CHAIN)
  /\ final_result' = [final_result EXCEPT !.modified_payload = current_payload]
  /\ returned' = final_result'
  /\ pc' = "done"
  /\ UNCHANGED << entry, check_vars, pair_vars, globals, input, heap, idx, current_payload, result, arg,
                  detect_vars, gate_vars, stages, outcomes >>

(***************************************************************************)
(* link_safety_plugin                                                      *)
(***************************************************************************)
\* The result of lines 47-94 for payload id of heap h: <<heap, result>>.
LinkSafetyResult(h, id) ==
  LET messages == h[id]
      last_msg == messages[Len(messages)]
  IN  IF messages = << >> THEN <<h, AgentPreInvokeResult(TRUE, id)>>
      ELSE IF last_msg.shape = "dict" THEN <<h, Raised>>
      ELSE LET user_text == last_msg.text
               found_links == FindLinksFrom(user_text, 1)
           IN  IF user_text = "" THEN <<h, AgentPreInvokeResult(TRUE, id)>>
               ELSE IF \E k \in 1..Len(found_links) : ~is_link_safe(found_links[k])
                 THEN << LinkBlockHeap(h, id,
                            Message("assistant", LINK_BLOCK_MESSAGE)),
                         AgentPreInvokeResult(FALSE, Len(h) + 1) >>
               ELSE <<h, AgentPreInvokeResult(TRUE, id)>>

\* The whole plugin.  It has no handler of its own: an exception raised in
\* its body reaches the caller.
LinkSafety ==
  /\ pc = "link_safety"
  /\ \E fault \in Offered(BOOLEAN, "link_raises") :
       IF fault
         THEN /\ result' = Raised
              /\ UNCHANGED heap
         ELSE \E r \in {LinkSafetyResult(heap, arg)} :
                heap' = r[1] /\ result' = r[2]
  /\ pc' = "chain_after"
  /\ UNCHANGED << entry, check_vars, pair_vars, globals, input, arg, chain_vars, detect_vars, gate_vars,
                  returned >>

(***************************************************************************)
(* detect_risks_plugin                                                     *)
(***************************************************************************)
\* Lines 685-692: the except clause, taken by any exception of the body.
GateHandler ==
  /\ \E o \in {HandlerOutcome(heap, arg)} :
         heap' = o.heap /\ result' = o.result
  /\ handled' = TRUE
  /\ pc' = "gate_return"

\* Lines 590-629: from the entry to the call of _run_detections.  The
\* early returns pass messages=..., which is no field of the result.
GateExtract ==
  /\ pc = "gate_extract"
  /\ \E fault \in Offered(BOOLEAN, "extract_raises") :
       IF fault
         THEN GateHandler /\ UNCHANGED user_input
       ELSE LET messages == heap[arg]
            IN  IF messages = << >>
                  THEN /\ result' = AgentPreInvokeResult(TRUE, None)
                       /\ pc' = "gate_return"
                       /\ UNCHANGED << heap, handled, user_input >>
                ELSE /\ user_input' = GateUserInput(messages[Len(messages)])
                     /\ IF user_input' = ""
                          THEN /\ result' = AgentPreInvokeResult(TRUE, None)
                               /\ pc' = "gate_return"
                          ELSE /\ pc' = "rd_local"
                               /\ UNCHANGED result
                     /\ UNCHANGED << heap, handled >>
  /\ UNCHANGED << entry, check_vars, pair_vars, globals, input, arg, chain_vars, detect_vars, overall_risk,
                  recommendation, returned >>

\* Lines 631-683: the decision on the report.
GateDecide ==
  /\ pc = "gate_decide"
  /\ \E fault \in Offered(BOOLEAN, "decide_raises") :
       IF fault
         THEN GateHandler /\ UNCHANGED << overall_risk, recommendation, globals >>
       ELSE /\ \E o \in {GateOutcome(heap, arg, detection_results)} :
                   heap' = o.heap /\ result' = o.result
            /\ IF Get(detection_results, "success", FALSE)
                 THEN /\ overall_risk' =
                           Get(detection_results, "overall_risk", "LOW")
                      /\ recommendation' =
                           Get(detection_results, "recommendation", "ALLOW")
                 ELSE UNCHANGED << overall_risk, recommendation >>
            /\ globals' = GlobalsAfterGate(globals, detection_results)
            /\ pc' = "gate_return"
            /\ UNCHANGED handled
  /\ UNCHANGED << entry, check_vars, pair_vars, input, arg, chain_vars, detect_vars, user_input,
                  returned >>

\* The return to the caller: the chain, or the runtime.  The report is a
\* local of the call and goes with it.
GateReturn ==
  /\ pc = "gate_return"
  /\ detection_results' = NoReport
  /\ IF entry = "chain_plugins"
       THEN pc' = "chain_after" /\ UNCHANGED returned
       ELSE pc' = "done" /\ returned' = result
  /\ UNCHANGED << entry, check_vars, pair_vars, globals, input, heap, result, arg, chain_vars,
                  exhaustion_result, cat, eventful, calls, errors, credentials,
                  failed, last_detect, gate_vars >>

(***************************************************************************)
(* _run_detections                                                         *)
(***************************************************************************)
\* Lines 349-391: the local part, before any call leaves the process.
RdLocal ==
  /\ pc = "rd_local"
  /\ \E r \in {RunLocal(user_input)} :
         /\ exhaustion_result' = r.exhaustion_result
         /\ detection_results' = BindResponse(r.results, globals)
         /\ globals' = GlobalsAfterReport(globals, r.results)
         /\ pc' = r.next
  /\ UNCHANGED << entry, check_vars, pair_vars, input, heap, result, arg, chain_vars, cat, eventful,
                  calls, errors, credentials,
                  failed, last_detect, gate_vars, returned >>

CredentialKeys == {"IAM_API_KEY", "WATSONX_GOVERNANCE_INSTANCE_ID"}
EnvironmentNames == {"WXO_IAM_API_KEY", "WXO_WATSONX_GOVERNANCE_INSTANCE_ID"}

\* What connections.key_value can do: raise, return something that is no
\* dict, or return a dict with some of the keys (a value may be empty).
KeyValueAnswers ==
  {[kind |-> "raises"], [kind |-> "not_dict"]} \cup
  {[kind |-> "dict", value |-> d] :
     d \in UNION {[ks -> {"", "secret"}] : ks \in SUBSET CredentialKeys}}

\* os.getenv(name): None is the empty sequence.
GetEnv(env, name) == IF name \in env THEN <<"secret">> ELSE << >>

\* kv.get(key, default), as <<>> for None or <<value>>
KvGet(d, key, default) == IF key \in DOMAIN d THEN <<d[key]>> ELSE default

\* A variant of Falsy that takes only None for missing.
FalsyNoneOnly(x) == x = << >>

\* not x, for an optional string
Falsy(x) == x = << >> \/ x = <<"">>

\* Lines 398-416: the credentials.
RdCredentials ==
  /\ pc = "rd_credentials"
  /\ \E kv \in Offered(KeyValueAnswers, "key_value"),
        env \in Offered(SUBSET EnvironmentNames, "environ") :
       LET env_key == GetEnv(env, "WXO_IAM_API_KEY")
           env_id == GetEnv(env, "WXO_WATSONX_GOVERNANCE_INSTANCE_ID")
           use_kv == ~_local /\ kv.kind = "dict"
           api_key == IF use_kv THEN KvGet(kv.value, "IAM_API_KEY", env_key)
                      ELSE env_key
           instance_id ==
             IF use_kv
               THEN KvGet(kv.value, "WATSONX_GOVERNANCE_INSTANCE_ID", env_id)
             ELSE env_id
       IN  /\ calls' = calls \o (IF _local THEN <<"os.getenv">>
                                 ELSE <<"os.getenv", "connections.key_value">>)
           /\ credentials' = [kind |-> IF _local THEN "env" ELSE kv.kind,
                              api_key |-> api_key,
                              instance_id |-> instance_id]
           /\ IF ~_local /\ kv.kind = "raises"
                THEN /\ detection_results' =
                          ExceptionReport("connections.key_value raised")
                     /\ errors' = Append(errors, "connections.key_value raised")
                     /\ pc' = "gate_decide"
              ELSE IF ~_local /\ kv.kind = "not_dict"
                THEN /\ detection_results' = FailureReport("Expected connection")
                     /\ pc' = "gate_decide"
                     /\ UNCHANGED errors
              ELSE IF Falsy(api_key) \/ Falsy(instance_id)
                THEN /\ detection_results' =
                          FailureReport("Missing credentials in connection")
                     /\ pc' = "gate_decide"
                     /\ UNCHANGED errors
              ELSE /\ pc' = "rd_token"
                   /\ UNCHANGED << detection_results, errors >>
  /\ UNCHANGED << entry, check_vars, pair_vars, globals, input, heap, result, arg, chain_vars,
                  exhaustion_result, cat, eventful, failed, last_detect,
                  gate_vars,
                  returned >>

\* Lines 418-419: get_token_from_api_key, which raises when the exchange
\* fails; the exception is caught at line 556.
RdToken ==
  /\ pc = "rd_token"
  /\ calls' = Append(calls, "get_token_from_api_key")
  /\ \E ok \in Offered(BOOLEAN, "token") :
       IF ok
         THEN /\ cat' = NextEnabled(1)
              /\ pc' = IF cat' > Len(RemoteCategories)
                         THEN "rd_aggregate" ELSE "rd_detect"
              /\ UNCHANGED << detection_results, errors >>
         ELSE /\ detection_results' = ExceptionReport("Failed to get token")
              /\ errors' = Append(errors, "Failed to get token")
              /\ pc' = "gate_decide"
              /\ UNCHANGED cat
  /\ UNCHANGED << entry, check_vars, pair_vars, globals, input, heap, result, arg, chain_vars, exhaustion_result,
                  eventful, credentials, failed, last_detect, gate_vars,
                  returned >>

\* Lines 428-513: the remote call of one enabled category and its record.
\* detect (lines 183-192) catches RequestException only: a response body
\* that is no JSON object makes response.json().get raise AttributeError,
\* which leaves detect and is caught at line 556.
RdDetect ==
  /\ pc = "rd_detect"
  /\ calls' = Append(calls, "detect:" \o RemoteCategories[cat].enabled_name)
  /\ \/ \E answer \in AnswersOffered :
          /\ Eventful(answer) => eventful < MaxEventful
          /\ eventful' = IF Eventful(answer) THEN eventful + 1 ELSE eventful
          /\ \E r \in {Detect(user_input, answer)} :
               /\ detection_results' =
                    RecordDetection(detection_results, RemoteCategories[cat], r)
               /\ failed' = IF r.success THEN failed
                            ELSE Append(failed, RemoteCategories[cat].enabled_name)
               /\ last_detect' = [answer |-> answer, result |-> r]
          /\ cat' = NextEnabled(cat + 1)
          /\ pc' = IF cat' > Len(RemoteCategories)
                     THEN "rd_aggregate" ELSE "rd_detect"
          /\ UNCHANGED errors
     \/ /\ plan # NoPlan => plan.answers[cat] = Malformed
        /\ detection_results' = ExceptionReport("AttributeError")
        /\ errors' = Append(errors, "AttributeError")
        /\ pc' = "gate_decide"
        /\ last_detect' = NoDetect
        /\ UNCHANGED << cat, eventful, failed >>
  /\ UNCHANGED << entry, check_vars, pair_vars, globals, input, heap, result, arg, chain_vars, exhaustion_result,
                  credentials, gate_vars, returned >>

\* Lines 515-554: the aggregation.
RdAggregate ==
  /\ pc = "rd_aggregate"
  /\ \E report \in {AggregateReport(detection_results)} :
         /\ detection_results' = BindResponse(report, globals)
         /\ globals' = GlobalsAfterReport(globals, report)
  /\ pc' = "gate_decide"
  /\ last_detect' = NoDetect
  /\ UNCHANGED << entry, check_vars, pair_vars, input, heap, result, arg, chain_vars,
                  exhaustion_result, cat, eventful, calls, errors, credentials,
                  failed, gate_vars,
                  returned >>

Next ==
  \/ ChainLoop
  \/ ChainAfter
  \/ ChainReturn
  \/ LinkSafety
  \/ GateExtract
  \/ GateDecide
  \/ GateReturn
  \/ RdLocal
  \/ RdCredentials
  \/ RdToken
  \/ RdDetect
  \/ RdAggregate

Spec == Init /\ [][Next]_vars

(***************************************************************************)
(* ResourceExhaustionDetector.check on its own: a detector built with any  *)
(* max_length up to MaxCheckLength, on texts shorter and longer than it.   *)
(***************************************************************************)
MaxCheckLength == 4

\* Texts for the check: harmless ones, and ones the other rules flag.
CheckTexts ==
  {m.text : m \in LastMessages}
    \cup {"a", "abc", "abcde", "id 123456", "pay 1234567 now", "forever",
          "2 billion", "every password"}

CheckInit ==
  /\ entry = "ResourceExhaustionDetector.check"
  /\ max_length \in 0..MaxCheckLength
  /\ rule = 1
  /\ st = NewCheckState
  /\ user_input \in CheckTexts
  /\ pc = "check"
  /\ input = << >>
  /\ heap = <<input>>
  /\ idx = 1
  /\ current_payload = 1
  /\ final_result = AgentPreInvokeResult(TRUE, None)
  /\ result = NoResult
  /\ arg = 1
  /\ exhaustion_result = [none |-> TRUE]
  /\ detection_results = NoReport
  /\ cat = 1
  /\ eventful = 0
  /\ overall_risk = ""
  /\ recommendation = ""
  /\ calls = << >>
  /\ errors = << >>
  /\ credentials = NoCredentials
  /\ failed = << >>
  /\ last_detect = NoDetect
  /\ stages = << >>
  /\ outcomes = << >>
  /\ handled = FALSE
  /\ returned = NoResult
  /\ globals = GlobalsInit
  /\ plan = NoPlan
  /\ who = 0
  /\ parked = << >>

NumRules == 6

\* Lines 240-308: the next of the six rules.
CheckRule ==
  /\ pc = "check"
  /\ rule <= NumRules
  /\ st' = RuleAt(rule, max_length, user_input, st)
  /\ rule' = rule + 1
  /\ UNCHANGED << entry, max_length, pair_vars, globals, input, heap, pc, result, arg, chain_vars,
                  detect_vars, gate_vars, returned >>

\* Lines 310-317: the result of the call.
CheckReturn ==
  /\ pc = "check"
  /\ rule > NumRules
  /\ exhaustion_result' = ResourceExhaustionResult(st)
  /\ pc' = "checked"
  /\ UNCHANGED << entry, check_vars, pair_vars, globals, input, heap, result, arg, chain_vars,
                  detection_results, cat, eventful, calls, errors, credentials,
                  failed, last_detect, gate_vars, returned >>

CheckNext ==
  \/ CheckRule
  \/ CheckReturn

CheckSpec == CheckInit /\ [][CheckNext]_vars

(***************************************************************************)
(* Three requests in one process.  Requests 1 and 2 are the same request   *)
(* (the same entry, payload and answers of the environment), request 3 is  *)
(* any request; the processor goes from one to another at any step.  What  *)
(* a request runs with is its own; globals belongs to the module.          *)
(***************************************************************************)
Requests == {1, 2, 3}

\* The detection endpoint finds nothing.
Clean == [ok |-> TRUE, detections |-> << >>]

\* An environment that answers every call, with nothing found.
CleanPlan ==
  [key_value |-> [kind |-> "dict",
                  value |-> [IAM_API_KEY |-> "secret",
                             WATSONX_GOVERNANCE_INSTANCE_ID |-> "secret"]],
   environ |-> {},
   token |-> TRUE,
   answers |-> [k \in DOMAIN RemoteCategories |-> Clean],
   extract_raises |-> FALSE,
   decide_raises |-> FALSE,
   link_raises |-> FALSE]

\* The requests that are served together: a remote hit that blocks, a link
\* that blocks, a local block, a failed call with a hit under review, a
\* malformed answer, and the text and answers of the first one sent through
\* the chain in a payload of its own.
PairKinds ==
  { [entry |-> "detect_risks_plugin",
     input |-> <<PriorMessage, Message("user", "Hi, how are you?")>>,
     plan |-> [CleanPlan EXCEPT !.answers[3] =
                 [ok |-> TRUE,
                  detections |-> <<[detection |-> "Yes", score |-> 79996]>>]]],
    [entry |-> "chain_plugins",
     input |-> <<Message("user", "see http://evil.com/x")>>,
     plan |-> CleanPlan],
    [entry |-> "detect_risks_plugin",
     input |-> <<Message("user", "1 million")>>,
     plan |-> CleanPlan],
    [entry |-> "chain_plugins",
     input |-> <<Message("user", "Hi, how are you?")>>,
     plan |-> [CleanPlan EXCEPT
                 !.answers[1] = [ok |-> FALSE, detections |-> << >>],
                 !.answers[4] =
                   [ok |-> TRUE,
                    detections |-> <<[detection |-> "has_HAP", score |-> 60000]>>]]],
    [entry |-> "detect_risks_plugin",
     input |-> <<Message("user", "Hi, how are you?")>>,
     plan |-> [CleanPlan EXCEPT !.answers[5] = Malformed]],
    [entry |-> "chain_plugins",
     input |-> <<Message("user", "Hi, how are you?")>>,
     plan |-> [CleanPlan EXCEPT !.answers[3] =
                 [ok |-> TRUE,
                  detections |-> <<[detection |-> "Yes", score |-> 79996]>>]]] }

\* What the running request runs with.
ThisRequest ==
  [entry |-> entry, input |-> input, heap |-> heap, pc |-> pc, idx |-> idx,
   current_payload |-> current_payload, final_result |-> final_result,
   result |-> result, arg |-> arg, user_input |-> user_input,
   exhaustion_result |-> exhaustion_result,
   detection_results |-> detection_results, cat |-> cat,
   eventful |-> eventful, overall_risk |-> overall_risk,
   recommendation |-> recommendation, calls |-> calls, errors |-> errors,
   credentials |-> credentials, failed |-> failed,
   last_detect |-> last_detect, stages |-> stages, outcomes |-> outcomes,
   handled |-> handled, returned |-> returned, plan |-> plan]

\* A request of the given kind, before its first step.
NewRequest(kind) ==
  [entry |-> kind.entry,
   input |-> kind.input,
   heap |-> <<kind.input>>,
   pc |-> IF kind.entry = "chain_plugins" THEN "chain_loop" ELSE "gate_extract",
   idx |-> 1,
   current_payload |-> 1,
   final_result |-> AgentPreInvokeResult(TRUE, None),
   result |-> NoResult,
   arg |-> 1,
   user_input |-> "",
   exhaustion_result |-> [none |-> TRUE],
   detection_results |-> NoReport,
   cat |-> 1,
   eventful |-> 0,
   overall_risk |-> "",
   recommendation |-> "",
   calls |-> << >>,
   errors |-> << >>,
   credentials |-> NoCredentials,
   failed |-> << >>,
   last_detect |-> NoDetect,
   stages |-> << >>,
   outcomes |-> << >>,
   handled |-> FALSE,
   returned |-> NoResult,
   plan |-> kind.plan]

PairInit ==
  /\ max_length = RESOURCE_MAX_PROMPT_LENGTH
  /\ rule = 0
  /\ st = NoCheck
  /\ globals = GlobalsInit
  /\ who = 1
  /\ \E a \in PairKinds, b \in PairKinds :
       /\ entry = NewRequest(a).entry
       /\ input = NewRequest(a).input
       /\ heap = NewRequest(a).heap
       /\ pc = NewRequest(a).pc
       /\ idx = NewRequest(a).idx
       /\ current_payload = NewRequest(a).current_payload
       /\ final_result = NewRequest(a).final_result
       /\ result = NewRequest(a).result
       /\ arg = NewRequest(a).arg
       /\ user_input = NewRequest(a).user_input
       /\ exhaustion_result = NewRequest(a).exhaustion_result
       /\ detection_results = NewRequest(a).detection_results
       /\ cat = NewRequest(a).cat
       /\ eventful = NewRequest(a).eventful
       /\ overall_risk = NewRequest(a).overall_risk
       /\ recommendation = NewRequest(a).recommendation
       /\ calls = NewRequest(a).calls
       /\ errors = NewRequest(a).errors
       /\ credentials = NewRequest(a).credentials
       /\ failed = NewRequest(a).failed
       /\ last_detect = NewRequest(a).last_detect
       /\ stages = NewRequest(a).stages
       /\ outcomes = NewRequest(a).outcomes
       /\ handled = NewRequest(a).handled
       /\ returned = NewRequest(a).returned
       /\ plan = NewRequest(a).plan
       /\ parked = [r \in Requests |->
                      IF r = 1 THEN NoRequest
                      ELSE IF r = 2 THEN NewRequest(a) ELSE NewRequest(b)]

\* The processor leaves the running request where it is and goes on with
\* another one that has not returned yet.
Switch ==
  /\ who \in Requests
  /\ \E to \in Requests \ {who} :
       /\ parked[to].pc \notin {"done", "raised"}
       /\ parked' = [parked EXCEPT ![who] = ThisRequest, ![to] = NoRequest]
       /\ who' = to
       /\ entry' = parked[to].entry
       /\ input' = parked[to].input
       /\ heap' = parked[to].heap
       /\ pc' = parked[to].pc
       /\ idx' = parked[to].idx
       /\ current_payload' = parked[to].current_payload
       /\ final_result' = parked[to].final_result
       /\ result' = parked[to].result
       /\ arg' = parked[to].arg
       /\ user_input' = parked[to].user_input
       /\ exhaustion_result' = parked[to].exhaustion_result
       /\ detection_results' = parked[to].detection_results
       /\ cat' = parked[to].cat
       /\ eventful' = parked[to].eventful
       /\ overall_risk' = parked[to].overall_risk
       /\ recommendation' = parked[to].recommendation
       /\ calls' = parked[to].calls
       /\ errors' = parked[to].errors
       /\ credentials' = parked[to].credentials
       /\ failed' = parked[to].failed
       /\ last_detect' = parked[to].last_detect
       /\ stages' = parked[to].stages
       /\ outcomes' = parked[to].outcomes
       /\ handled' = parked[to].handled
       /\ returned' = parked[to].returned
       /\ plan' = parked[to].plan
  /\ UNCHANGED << check_vars, globals >>

PairNext ==
  \/ ChainLoop
  \/ ChainAfter
  \/ ChainReturn
  \/ LinkSafety
  \/ GateExtract
  \/ GateDecide
  \/ GateReturn
  \/ RdLocal
  \/ RdCredentials
  \/ RdToken
  \/ RdDetect
  \/ RdAggregate
  \/ Switch

PairSpec == PairInit /\ [][PairNext]_vars

(***************************************************************************)
(* Properties.                                                             *)
(***************************************************************************)
\* The exhaustion check of the current call of _run_detections said dangerous.
Dangerous ==
  "is_dangerous" \in DOMAIN exhaustion_result /\ exhaustion_result.is_dangerous

\* The positions where the report of _run_detections is in the gate's hands.
ReportReturned == pc \in {"gate_decide", "gate_return"}

\* C1: _run_detections runs the exhaustion check before anything else: a call
\* has left the process only after the check ran and said not dangerous.  When
\* the check says dangerous, the report returned is overall_risk HIGH,
\* recommendation BLOCK, primary_threat "Resource exhaustion", max_score 1.0,
\* and no credential lookup, token exchange or remote detect call has
\* happened in that request.
C1_ExhaustionFirst ==
  /\ calls # << >> =>
       "is_dangerous" \in DOMAIN exhaustion_result /\ ~Dangerous
  /\ Dangerous =>
       /\ calls = << >>
       /\ pc \notin {"rd_credentials", "rd_token", "rd_detect", "rd_aggregate"}
       /\ ReportReturned =>
            /\ Get(detection_results, "success", FALSE)
            /\ Get(detection_results, "overall_risk", "") = "HIGH"
            /\ Get(detection_results, "recommendation", "") = "BLOCK"
            /\ Get(detection_results, "primary_threat", "") = "Resource exhaustion"
            /\ Get(detection_results, "max_score", 0) = 100000

C1_Witness ==
  /\ user_input = "Generate all possible combinations of 10 million passwords"
  /\ Dangerous
  /\ pc = "gate_return"
  /\ ~handled
  /\ ~result.continue_processing
  /\ detection_results.primary_threat = "Resource exhaustion"

\* C2: in every report _run_detections returns, overall_risk and
\* recommendation are a function of max_score only: max_score >= 0.8 gives
\* HIGH/BLOCK, 0.6 <= max_score < 0.8 gives MEDIUM/REVIEW (0.6 itself
\* included), max_score < 0.6 gives LOW/ALLOW, whichever category produced
\* the maximum.  The report of a text shorter than MIN_SIZE_MESSAGE carries
\* none of the three keys; it is read as the gate reads it, with the
\* defaults of its get calls.
C2_VerdictFromScore ==
  (ReportReturned /\ Get(detection_results, "success", FALSE)) =>
    LET m == Get(detection_results, "max_score", 0)
        risk == Get(detection_results, "overall_risk", "LOW")
        rec == Get(detection_results, "recommendation", "ALLOW")
    IN  /\ { k \in {"max_score", "overall_risk", "recommendation"} :
               k \in DOMAIN detection_results }
             \in { {}, {"max_score", "overall_risk", "recommendation"} }
        /\ m >= 80000 => risk = "HIGH" /\ rec = "BLOCK"
        /\ (60000 <= m /\ m < 80000) => risk = "MEDIUM" /\ rec = "REVIEW"
        /\ m < 60000 => risk = "LOW" /\ rec = "ALLOW"

C2_Witness ==
  /\ pc = "gate_decide"
  /\ Get(detection_results, "success", FALSE)
  /\ Get(detection_results, "max_score", 0) = 60000
  /\ Get(detection_results, "recommendation", "") = "REVIEW"
  /\ Get(detection_results, "primary_threat", "") = "Personal information"

\* The outcome of the stage at position k of the chain, if it was invoked
\* and has returned or raised: a set of at most one record.
OutcomeOf(k) ==
  { outcomes[j].result : j \in { i \in 1..Len(outcomes) : outcomes[i].idx = k } }

\* An outcome that blocks: a result with continue_processing false.
Blocks(o) == o # Raised /\ ~o.continue_processing

\* C3: the first stage that returns continue_processing false ends the
\* chain: no later stage is reached or invoked, and the chain returns at
\* once continue_processing false with that stage's modified payload.  When
\* detect_risks blocks, link_safety never runs.
C3_BlockEndsChain ==
  \A j \in 1..Len(outcomes) :
    Blocks(outcomes[j].result) =>
      /\ j = Len(outcomes)
      /\ Len(stages) = outcomes[j].idx
      /\ pc = "done"
      /\ returned =
           AgentPreInvokeResult(FALSE, outcomes[j].result.modified_payload)
      /\ (stages[outcomes[j].idx].name = "detect_risks" =>
            \A k \in 1..Len(stages) : stages[k].name # "link_safety")

C3_Witness ==
  /\ pc = "done"
  /\ Len(outcomes) = 1
  /\ Blocks(outcomes[1].result)
  /\ stages[1].name = "detect_risks"
  /\ LinkPresent(stages[1].text)
  /\ returned.modified_payload = 2

\* The payload threaded to position k of the chain: the modified payload of
\* the most recent stage before k that returned one, or the caller's payload.
Threaded(k) ==
  LET earlier == { j \in 1..Len(outcomes) :
                     /\ outcomes[j].idx < k
                     /\ outcomes[j].result # Raised
                     /\ outcomes[j].result.modified_payload # None }
  IN  IF earlier = {} THEN 1
      ELSE outcomes[Max(earlier)].result.modified_payload

\* The text of the last message of a list of messages, "" for an empty list.
LastText(messages) ==
  IF messages = << >> THEN "" ELSE messages[Len(messages)].text

\* Every stage of the chain was reached and none blocked or raised.
AllContinued ==
  /\ Len(stages) = Len(PLUGIN_CHAIN)
  /\ \A j \in 1..Len(outcomes) :
       outcomes[j].result # Raised /\ outcomes[j].result.continue_processing

\* C4: chain_plugins reaches the stages in their declared order, and the
\* payload passed to each stage, and the text its condition is evaluated
\* on, is the modified payload returned by the most recent earlier stage
\* that returned one, not the original payload.  When every stage continues,
\* the chain returns continue_processing true with that last threaded
\* payload.
C4_PayloadThreaded ==
  /\ \A k \in 1..Len(stages) :
       /\ stages[k].name = PLUGIN_CHAIN[k].name
       /\ stages[k].payload = Threaded(k)
       /\ stages[k].text = LastText(heap[Threaded(k)])
  /\ (entry = "chain_plugins" /\ pc = "done" /\ AllContinued) =>
       returned = AgentPreInvokeResult(TRUE, Threaded(Len(PLUGIN_CHAIN) + 1))

C4_Witness ==
  /\ pc = "done"
  /\ AllContinued
  /\ stages[2].invoked
  /\ stages[2].payload = 2
  /\ OutcomeOf(1) = {AgentPreInvokeResult(TRUE, 2)}
  /\ returned = AgentPreInvokeResult(TRUE, 2)

\* C5: if a stage invoked by chain_plugins raises, the chain fails closed:
\* it returns continue_processing false and reaches no later stage.
C5_RaiseFailsClosed ==
  \A j \in 1..Len(outcomes) :
    outcomes[j].result = Raised =>
      /\ j = Len(outcomes)
      /\ Len(stages) = outcomes[j].idx
      /\ pc = "done"
      /\ ~returned.continue_processing

C5_Witness ==
  /\ pc = "done"
  /\ Len(outcomes) = 2
  /\ outcomes[2].result = Raised
  /\ stages[2].name = "link_safety"
  /\ returned = AgentPreInvokeResult(FALSE, None)

\* The number of stages the chain invoked that have returned or raised, or
\* are running.
Running == IF pc \in {"chain_loop", "done", "raised"} THEN 0 ELSE 1

\* C6: a stage whose condition is false is skipped without being invoked and
\* the chain goes on to the next stage: link_safety is invoked only when the
\* current last-message text matches the link regex, and a stage with
\* condition "always" is invoked whenever the chain reaches it.
C6_ConditionalStage ==
  /\ \A k \in 1..Len(stages) :
       /\ PLUGIN_CHAIN[k].condition = "always" => stages[k].invoked
       /\ PLUGIN_CHAIN[k].condition = "if_link_present" =>
            (stages[k].invoked <=> LinkPresent(LastText(heap[stages[k].payload])))
       /\ ~stages[k].invoked =>
            /\ OutcomeOf(k) = {}
            /\ (k < Len(PLUGIN_CHAIN) /\ pc = "done") => Len(stages) > k
  /\ entry = "chain_plugins" =>
       Len(outcomes) + Running =
         Cardinality({ k \in 1..Len(stages) : stages[k].invoked })

C6_Witness ==
  /\ pc = "done"
  /\ Len(stages) = 2
  /\ stages[2].name = "link_safety"
  /\ ~stages[2].invoked
  /\ stages[2].text = "Hi, how are you?"
  /\ Len(outcomes) = 1
  /\ returned = AgentPreInvokeResult(TRUE, 2)

\* The report in the gate's hands says HIGH or BLOCK.
ReportBlocks ==
  /\ Get(detection_results, "success", FALSE)
  /\ \/ Get(detection_results, "overall_risk", "LOW") = "HIGH"
     \/ Get(detection_results, "recommendation", "ALLOW") = "BLOCK"

\* Message lists ms and ns differ at most in their last message.
SameButLast(ms, ns) ==
  /\ Len(ms) = Len(ns)
  /\ \A k \in 1..(Len(ms) - 1) : ms[k] = ns[k]

\* Text t is block message m, then the name of threat n, then guidance g.
IsBlockNotice(t, m, n, g) ==
  /\ StartsAt(t, 1, m)
  /\ StartsAt(t, Len(t) - Len(g) + 1, g)
  /\ \E i \in (Len(m) + 1)..(Len(t) - Len(g)) : StartsAt(t, i, n)

C8_CallerPayloadUntouched ==
  /\ heap[1] = input
  /\ pc = "gate_return" =>
       /\ heap[arg] = input
       /\ result.modified_payload # None =>
            /\ result.modified_payload # arg
            /\ result.modified_payload = Len(heap)

C8_Witness ==
  /\ pc = "gate_return"
  /\ ~result.continue_processing
  /\ result.modified_payload = 2
  /\ heap[2] # input
  /\ heap[1] = input

\* The report in the gate's hands is the failure of _run_detections.
ReportFailed ==
  "error" \in DOMAIN detection_results /\ ~Get(detection_results, "success", FALSE)

\* C9: when _run_detections returns success false (missing credentials,
\* connection not a mapping, token exchange failure, or any exception in the
\* pipeline) the gate fails open: it returns continue_processing true, and
\* the payload that goes on to the agent or to the next chain stage is
\* unchanged.
C9_FailOpen ==
  /\ (pc = "gate_return" /\ ReportFailed) =>
       /\ result.continue_processing
       /\ heap[arg] = input
       /\ result.modified_payload # None =>
            heap[result.modified_payload] = input
  /\ \A j \in 1..Len(outcomes) :
       outcomes[j].result = AgentPreInvokeResult(TRUE, None) =>
         /\ Threaded(outcomes[j].idx + 1) = stages[outcomes[j].idx].payload
         /\ heap[Threaded(outcomes[j].idx + 1)] = input
         /\ Len(stages) > outcomes[j].idx =>
              stages[outcomes[j].idx + 1].payload = stages[outcomes[j].idx].payload

C9_Witness ==
  /\ pc = "gate_return"
  /\ ReportFailed
  /\ ~handled
  /\ detection_results.error = "Failed to get token"
  /\ result = AgentPreInvokeResult(TRUE, None)
  /\ entry = "chain_plugins"

C11_PassThroughUnmodified ==
  (pc = "gate_return" /\ ~handled /\ Get(detection_results, "success", FALSE)
     /\ ~ReportBlocks) =>
    /\ Get(detection_results, "overall_risk", "LOW") \in {"MEDIUM", "LOW"}
    /\ Get(detection_results, "recommendation", "ALLOW") \in {"REVIEW", "ALLOW"}
    /\ result.continue_processing
    /\ result.modified_payload \in DOMAIN heap
    /\ heap[result.modified_payload] = heap[arg]
    /\ heap[result.modified_payload] = input

C11_Witness ==
  /\ pc = "gate_return"
  /\ ~handled
  /\ Get(detection_results, "overall_risk", "") = "MEDIUM"
  /\ Get(detection_results, "recommendation", "") = "REVIEW"
  /\ result = AgentPreInvokeResult(TRUE, 2)
  /\ heap[2] = input
  /\ Len(input) = 2

\* The caller's payload has no messages, or its last message has no text.
EmptyInput == input = << >> \/ input[Len(input)].text = ""

\* C12: when the payload has no messages, or the text of the last message
\* is missing or empty, for each of the supported content shapes (object
\* with a text field, plain string, mapping), detect_risks_plugin returns
\* continue_processing true with the payload unmodified, and never runs the
\* aggregator or any remote call.
C12_EmptyTextIsSafe ==
  EmptyInput =>
    /\ pc \notin {"rd_local", "rd_credentials", "rd_token", "rd_detect",
                  "rd_aggregate", "gate_decide"}
    /\ calls = << >>
    /\ exhaustion_result = [none |-> TRUE]
    /\ detection_results = NoReport
    /\ heap[1] = input
    /\ pc = "gate_return" =>
         /\ result # Raised
         /\ result.continue_processing
         /\ result.modified_payload # None =>
              heap[result.modified_payload] = input
    /\ (entry = "detect_risks_plugin" /\ pc = "done") =>
         returned.continue_processing

C12_Witness ==
  /\ entry = "detect_risks_plugin"
  /\ pc = "done"
  /\ ~handled
  /\ Len(input) = 2
  /\ input[2].shape = "dict"
  /\ input[2].text = ""
  /\ returned = AgentPreInvokeResult(TRUE, None)

\* The pipeline is inside _run_detections: one of its statements runs next.
InPipeline == pc \in {"rd_local", "rd_credentials", "rd_token", "rd_detect",
                      "rd_aggregate"}

\* C13: _run_detections never lets an exception escape.  Once a statement of
\* its body has raised (the connection store, the token exchange, a remote
\* call that raises past detect), the pipeline has ended, no second exception
\* follows, and the report handed to the gate is exactly
\* {success: false, error: <the message of the exception>}; the gate's result
\* is never a raised exception.
C13_RunDetectionsNeverRaises ==
  errors # << >> =>
    /\ Len(errors) = 1
    /\ ~InPipeline
    /\ pc # "raised"
    /\ pc = "gate_decide" =>
         detection_results = [success |-> FALSE, error |-> errors[1]]
    /\ pc = "gate_return" => result # Raised

\* C13 happens: the token exchange failed and the report says so.
C13_Witness ==
  /\ pc = "gate_decide"
  /\ errors = <<"Failed to get token">>
  /\ calls[Len(calls)] = "get_token_from_api_key"
  /\ detection_results = [success |-> FALSE, error |-> "Failed to get token"]

\* The remote calls in the call log: the token exchange and the detections.
RemoteCalls ==
  {k \in DOMAIN calls :
     calls[k] = "get_token_from_api_key" \/ SubSeq(calls[k], 1, 7) = "detect:"}

\* Lines 398-416 ended with the API key or the instance id missing, or with
\* a connection store that returned no mapping.
CredentialsUnusable ==
  \/ credentials.kind = "not_dict"
  \/ /\ credentials.kind \in {"dict", "env"}
     /\ \/ credentials.api_key \in {<< >>, <<"">>}
        \/ credentials.instance_id \in {<< >>, <<"">>}

\* C14: for a text that passed the exhaustion check and has at least
\* MIN_SIZE_MESSAGE characters, a missing API key or instance id (or a
\* connection store answering with no mapping) ends the pipeline at once:
\* the report has success false, and neither the token exchange nor any
\* remote detection is ever called.
C14_MissingCredentialsStop ==
  CredentialsUnusable =>
    /\ Len(user_input) >= MIN_SIZE_MESSAGE
    /\ ~Dangerous
    /\ RemoteCalls = {}
    /\ pc \notin {"rd_token", "rd_detect", "rd_aggregate"}
    /\ errors = << >>
    /\ pc = "gate_decide" =>
         /\ DOMAIN detection_results = {"success", "error"}
         /\ ~detection_results.success

\* C14 happens: the store has an API key but an empty instance id, and the
\* report of the missing credentials is with the gate.
C14_Witness ==
  /\ pc = "gate_decide"
  /\ credentials.kind = "dict"
  /\ credentials.api_key = <<"secret">>
  /\ credentials.instance_id = <<"">>
  /\ detection_results = FailureReport("Missing credentials in connection")
  /\ calls = <<"os.getenv", "connections.key_value">>

\* The exhaustion check ran on a text shorter than MIN_SIZE_MESSAGE and did
\* not find it dangerous.
ShortAndSafe ==
  /\ "is_dangerous" \in DOMAIN exhaustion_result
  /\ ~exhaustion_result.is_dangerous
  /\ Len(user_input) < MIN_SIZE_MESSAGE

\* C15: every text shorter than MIN_SIZE_MESSAGE that passes the exhaustion
\* check gets a successful report with no remote category in it: nothing
\* outside the process is called (no credential lookup, no token exchange,
\* no detection), the report is not flagged HIGH or BLOCK, and the gate
\* continues.
C15_ShortTextSkipsRemote ==
  ShortAndSafe =>
    /\ calls = << >>
    /\ credentials = NoCredentials
    /\ ~InPipeline
    /\ pc = "gate_decide" =>
         /\ detection_results.success
         /\ detection_results.enabled_detections = <<"Resource exhaustion">>
         /\ \A k \in DOMAIN detection_results.detections :
              /\ detection_results.detections[k].name = "Resource exhaustion"
              /\ ~detection_results.detections[k].detected
         /\ "overall_risk" \notin DOMAIN detection_results
         /\ ~ReportBlocks
    /\ pc = "gate_return" => (result # Raised /\ result.continue_processing)
    /\ (entry = "detect_risks_plugin" /\ pc = "done") =>
         returned.continue_processing

\* C15 happens: the gate has let "Hi" through on the report of the local
\* check alone.
C15_Witness ==
  /\ pc = "gate_return"
  /\ ~handled
  /\ user_input = "Hi"
  /\ ShortAndSafe
  /\ calls = << >>
  /\ result.continue_processing

\* The exhaustion check ran on the greeting of the second end-to-end scenario.
GreetingChecked ==
  /\ user_input = "Hi, how are you?"
  /\ "is_dangerous" \in DOMAIN exhaustion_result

\* C16, as stated: for the input "Hi, how are you?" the text is shorter than
\* MIN_SIZE_MESSAGE, passes the exhaustion check, triggers no remote check,
\* and the report returned has an empty detections mapping and is not flagged.
C16_GreetingIsShort ==
  GreetingChecked =>
    /\ Len(user_input) < MIN_SIZE_MESSAGE
    /\ ~exhaustion_result.is_dangerous
    /\ calls = << >>
    /\ pc = "gate_decide" =>
         /\ detection_results.success
         /\ detection_results.detections = << >>
         /\ ~ReportBlocks

\* C16, as the code has it: "Hi, how are you?" has 16 characters, not fewer
\* than MIN_SIZE_MESSAGE; it passes the exhaustion check and goes on to the
\* credentials and the remote checks.  A successful report always holds the
\* "Resource exhaustion" entry, with detected false, as the first of its
\* detections, and is LOW / ALLOW with no risk detected when no remote
\* category detected anything.
C16_GreetingGoesRemote ==
  GreetingChecked =>
    /\ Len(user_input) = 16
    /\ Len(user_input) >= MIN_SIZE_MESSAGE
    /\ ~exhaustion_result.is_dangerous
    /\ pc = "rd_credentials" \/ (calls # << >> /\ calls[1] = "os.getenv")
    /\ (pc = "gate_decide" /\ detection_results.success) =>
         LET detections == detection_results.detections
         IN  /\ detections # << >>
             /\ detections[1].name = "Resource exhaustion"
             /\ ~detections[1].detected
             /\ (\A k \in DOMAIN detections : ~detections[k].detected) =>
                  /\ detection_results.overall_risk = "LOW"
                  /\ detection_results.recommendation = "ALLOW"
                  /\ ~detection_results.any_risk_detected

\* C16 happens: every remote category answered for the greeting with no
\* detection, and the report is LOW with six entries.
C16_Witness ==
  /\ pc = "gate_decide"
  /\ GreetingChecked
  /\ detection_results.success
  /\ Len(detection_results.detections) = 1 + Len(RemoteCategories)
  /\ \A k \in DOMAIN detection_results.detections :
       ~detection_results.detections[k].detected
  /\ detection_results.overall_risk = "LOW"
  /\ Cardinality(RemoteCalls) = 1 + Len(RemoteCategories)

\* The enabled remote categories, in declared order.
EnabledCategories == SelectSeq(RemoteCategories, LAMBDA c : c.enabled)

\* The remote detections in the call log, in the order they were made.
DetectCalls == SelectSeq(calls, LAMBDA c : SubSeq(c, 1, 7) = "detect:")

\* The report of a completed aggregation is in the gate's hands.
Aggregated ==
  /\ pc = "gate_decide"
  /\ calls # << >>
  /\ "any_risk_detected" \in DOMAIN detection_results

\* The entries of the report's detections mapping under key.
EntriesOf(key) ==
  {k \in DOMAIN detection_results.detections :
     detection_results.detections[k].name = key}

\* C17: a remote category whose detect call failed is absent from the
\* detections mapping of the report and contributes nothing to
\* any_risk_detected, max_score or primary_threat: these come from the
\* entries present.  The failure does not end the pipeline: every enabled
\* category is called once, in declared order, and the aggregation
\* succeeds; when no category that answered detected anything the report is
\* LOW.
C17_FailedCategoryAbsent ==
  /\ (failed # << >> /\ errors = << >> /\ pc = "gate_decide") =>
       (Aggregated /\ detection_results.success)
  /\ Aggregated =>
       LET detections == detection_results.detections
           detected == {k \in DOMAIN detections : detections[k].detected}
       IN  /\ DetectCalls = [k \in 1..Len(EnabledCategories) |->
                               "detect:" \o EnabledCategories[k].enabled_name]
           /\ \A k \in 1..Len(EnabledCategories) :
                LET c == EnabledCategories[k]
                IN  IF \E j \in DOMAIN failed : failed[j] = c.enabled_name
                      THEN /\ EntriesOf(c.key) = {}
                           /\ Get(detection_results, "primary_threat", "")
                                # c.key
                    ELSE Cardinality(EntriesOf(c.key)) = 1
           /\ detection_results.any_risk_detected <=> detected # {}
           /\ \/ detection_results.max_score = 0
              \/ \E k \in detected :
                   detection_results.max_score = detections[k].max_score
           /\ detected = {} => detection_results.overall_risk = "LOW"

\* C17 happens: the call for harm failed, the five other categories answered
\* without a detection, and the report is LOW without a harm entry.
C17_Witness ==
  /\ Aggregated
  /\ failed = <<"harm">>
  /\ EntriesOf("harm") = {}
  /\ Len(detection_results.detections) = Len(RemoteCategories)
  /\ detection_results.overall_risk = "LOW"
  /\ Len(DetectCalls) = Len(RemoteCategories)

\* C18: no exception ever propagates out of chain_plugins: for every shape
\* of payload (no messages, a last message with text content, with plain
\* string content, or a mapping), the chain returns a result; it never ends
\* by raising, not even while it takes the text of the last message for the
\* condition of a stage.
C18_ChainNeverRaises ==
  entry = "chain_plugins" =>
    /\ pc # "raised"
    /\ pc = "done" => returned \notin {NoResult, Raised}

\* The results with continue_processing false that the gate (at its return)
\* or the chain (at its end) hands back.
BlockingResults ==
  (IF pc = "gate_return" /\ Blocks(result) THEN {result} ELSE {})
    \cup (IF pc = "done" /\ returned \notin {NoResult, Raised}
                         /\ ~returned.continue_processing
           THEN {returned} ELSE {})

\* The names a primary threat can have.
ThreatNames ==
  {"Resource exhaustion", "unknown"}
    \cup {RemoteCategories[k].key : k \in DOMAIN RemoteCategories}

\* C19: whenever the gate or the chain returns continue_processing false,
\* the result carries a modified payload whose last message is the
\* configured block message together with a named primary threat and the
\* remediation guidance, and holds no text of an internal error; this for
\* every way of blocking: the block of the risk gate, the block of
\* link_safety, and the chain failing closed after a stage raised.
C19_BlockCarriesNotice ==
  \A r \in BlockingResults :
    /\ r.modified_payload # None
    /\ r.modified_payload \in DOMAIN heap
    /\ LET messages == heap[r.modified_payload]
           t == LastText(messages)
       IN  /\ messages # << >>
           /\ \E n \in ThreatNames :
                IsBlockNotice(t, BLOCK_RESPONSE.message, n,
                              BLOCK_RESPONSE.guidance)
           /\ \A k \in DOMAIN errors : ~Contains(t, errors[k])

\* C20: for every text longer than the max_length the detector was built
\* with, check returns is_dangerous true and risk_level "high", whatever
\* else the text contains and whatever the later rules find in it.
C20_TooLongIsHigh ==
  (pc = "checked" /\ Len(user_input) > max_length) =>
    /\ exhaustion_result.is_dangerous
    /\ exhaustion_result.risk_level = "high"
    /\ exhaustion_result.reasons # << >>
    /\ exhaustion_result.reasons[1] = "Prompt too long"

\* C20 happens: a text over the length that also holds a large number, which
\* on its own is a medium risk, comes out high.
C20_Witness ==
  /\ pc = "checked"
  /\ user_input = "id 123456"
  /\ max_length = MaxCheckLength
  /\ Len(exhaustion_result.reasons) = 2
  /\ exhaustion_result.risk_level = "high"

\* The latest call of detect met a transport or HTTP failure.
DetectFailed == last_detect # NoDetect /\ ~last_detect.answer.ok

\* C22: on a transport or HTTP failure detect does not raise: it returns a
\* DetectionResult with success false, no detections and a non-empty error
\* string.  Such a result has has_risk() false and adds nothing to the
\* scoring: the pipeline goes on without an exception, and the category just
\* called has no entry in the detections the aggregation reads.
C22_FailedDetectIsNoSignal ==
  DetectFailed =>
    LET r == last_detect.result
        name == failed[Len(failed)]
    IN  /\ ~r.success
        /\ r.detections = << >>
        /\ r.error # << >>
        /\ r.error[1] # ""
        /\ ~has_risk(r)
        /\ errors = << >>
        /\ pc \in {"rd_detect", "rd_aggregate"}
        /\ failed # << >>
        /\ calls[Len(calls)] = "detect:" \o name
        /\ \A k \in DOMAIN RemoteCategories :
             RemoteCategories[k].enabled_name = name =>
               EntriesOf(RemoteCategories[k].key) = {}

\* C22 happens: the last category's call failed after five that answered,
\* and the aggregation is next.
C22_Witness ==
  /\ DetectFailed
  /\ pc = "rd_aggregate"
  /\ failed = <<"prompt_injection">>
  /\ Len(detection_results.detections) = Len(RemoteCategories)

\* C24: if any risk is detected, the primary_threat of the aggregated report
\* is the category with the highest max_score among the categories whose
\* detected flag is true, the first-declared of them on a tie; it is never a
\* category whose detected flag is false.
C24_PrimaryThreatIsDetected ==
  (Aggregated /\ detection_results.any_risk_detected) =>
    /\ "primary_threat" \in DOMAIN detection_results
    /\ LET detections == detection_results.detections
           detected == {k \in DOMAIN detections : detections[k].detected}
       IN  \E k \in detected :
             /\ detections[k].name = detection_results.primary_threat
             /\ \A j \in detected :
                  /\ detections[j].max_score <= detections[k].max_score
                  /\ j < k => detections[j].max_score < detections[k].max_score

LevelAlone(k) == RuleAt(k, max_length, user_input, NewCheckState).risk_level

\* The returned level is the highest any single rule gives.
ReturnsMaxSeverity ==
  pc = "checked" =>
    LevelIndex(exhaustion_result.risk_level)
      = Max({LevelIndex(LevelAlone(k)) : k \in 1..NumRules})

\* A step of check does not lower the level, and changes it only together
\* with a new reason.
LevelStep ==
  (pc = "check" /\ rule <= NumRules) =>
    /\ LevelIndex(st'.risk_level) >= LevelIndex(st.risk_level)
    /\ st'.risk_level # st.risk_level => Len(st'.reasons) > Len(st.reasons)

\* C26: within one call of check the risk level only moves upward through
\* low < medium < high as the rules are applied in order: no rule lowers it,
\* and the returned risk_level is the maximum severity over the rules that
\* matched.
C26_LevelOnlyRises == []ReturnsMaxSeverity /\ [][LevelStep]_vars

\* C26 happens: the length rule set "high", the keyword rule, a medium one,
\* matched after it, and the result is "high".
C26_Witness ==
  /\ pc = "checked"
  /\ user_input = "forever"
  /\ max_length = 0
  /\ Len(exhaustion_result.reasons) = 2
  /\ exhaustion_result.risk_level = "high"

\* The exhaustion check has returned in this request.
Checked == "is_dangerous" \in DOMAIN exhaustion_result

\* C27: in every result of check, is_dangerous is true iff at least one
\* reason was recorded, which is so iff risk_level is not "low".  A result
\* whose risk_level is only "medium" is therefore dangerous, and
\* _run_detections answers it with HIGH / BLOCK like a "high" one.
C27_DangerousIffReason ==
  Checked =>
    /\ exhaustion_result.is_dangerous <=> exhaustion_result.reasons # << >>
    /\ exhaustion_result.reasons # << >> <=> exhaustion_result.risk_level # "low"
    /\ (exhaustion_result.risk_level # "low" /\ pc = "gate_decide") =>
         /\ detection_results.success
         /\ detection_results.overall_risk = "HIGH"
         /\ detection_results.recommendation = "BLOCK"
         /\ detection_results.primary_threat = "Resource exhaustion"
         /\ calls = << >>

\* C27 happens: "1 million" is a medium risk, for its keyword alone, and the
\* report is HIGH / BLOCK.
C27_Witness ==
  /\ pc = "gate_decide"
  /\ user_input = "1 million"
  /\ exhaustion_result.risk_level = "medium"
  /\ exhaustion_result.is_dangerous
  /\ Len(exhaustion_result.reasons) = 1
  /\ detection_results.overall_risk = "HIGH"
  /\ detection_results.recommendation = "BLOCK"

\* Some record of the latest answer carries a flag that is a positive hit.
PositiveFlag ==
  \E k \in DOMAIN last_detect.answer.detections :
     last_detect.answer.detections[k].detection \in {"Yes", "has_HAP"}

\* C28: has_risk() is true iff the result is successful and at least one of
\* its records has the flag "Yes" or "has_HAP": it is false for a failed
\* result, for an empty detection sequence and when every record has another
\* flag, whatever the scores of the records and the configured threshold.
\* The detected flag recorded for the category is that value.
C28_HasRiskIsTheFlag ==
  last_detect # NoDetect =>
    /\ has_risk(last_detect.result) <=> (last_detect.answer.ok /\ PositiveFlag)
    /\ last_detect.answer.ok =>
         LET detections == detection_results.detections
         IN  /\ detections # << >>
             /\ detections[Len(detections)].detected <=> PositiveFlag

\* C28 happens: a "Yes" with a score of 0.1, below the threshold, is
\* recorded as detected.
C28_Witness ==
  /\ last_detect # NoDetect
  /\ last_detect.answer.detections = <<[detection |-> "Yes", score |-> 10000]>>
  /\ detection_results.detections[Len(detection_results.detections)].detected
  /\ detection_results.detections[Len(detection_results.detections)].max_score
       < detection_results.detections[Len(detection_results.detections)].threshold

\* The report in the gate's hands is a success, and either the exhaustion
\* check said dangerous or a detected category has a max_score of at least
\* 0.8.
BlockCondition ==
  /\ Get(detection_results, "success", FALSE)
  /\ \/ Dangerous
     \/ \E k \in DOMAIN detection_results.detections :
           /\ GetDetected(detection_results.detections[k])
           /\ GetMaxScore(detection_results.detections[k]) >= HIGH_SCORE

\* The statement of C29 as written: the gate returns continue_processing
\* false iff the aggregation succeeded and either the exhaustion check said
\* dangerous or a detected category has a max_score of at least 0.8.
C29_BlocksIffHighOrDangerous ==
  pc = "gate_return" =>
    /\ result # Raised
    /\ ~result.continue_processing <=> BlockCondition

\* C29, amended: the gate returns continue_processing false iff the
\* aggregation succeeded, either the exhaustion check said dangerous or a
\* detected category has a max_score of at least 0.8, and the gate's own body
\* raised nothing; when it raised, its handler continues whatever the report.
\* A report with any_risk_detected whose detected scores are all under 0.6,
\* a MEDIUM / REVIEW report and a failed report all continue.
C29_BlocksUnlessHandled ==
  pc = "gate_return" =>
    /\ result # Raised
    /\ ~result.continue_processing <=> (~handled /\ BlockCondition)
    /\ Get(detection_results, "overall_risk", "LOW") = "MEDIUM"
         => result.continue_processing
    /\ ReportFailed => result.continue_processing

\* C29 happens: a category is detected with a score of 0.1, the report says
\* any_risk_detected and ALLOW, and the gate continues.
C29_Witness ==
  /\ pc = "gate_return"
  /\ ~handled
  /\ Get(detection_results, "any_risk_detected", FALSE)
  /\ detection_results.max_score = 10000
  /\ detection_results.recommendation = "ALLOW"
  /\ result.continue_processing

\* C29 happens on the handler's path: the report is HIGH, the gate's body
\* raised, and the gate continues.
C29_HandledWitness ==
  /\ pc = "gate_return"
  /\ handled
  /\ BlockCondition
  /\ result.continue_processing

\* The stage the chain called last, and the payload it was given.
LastStage == stages[Len(stages)]

\* C30: whenever detect_risks_plugin or link_safety_plugin blocks, the payload
\* of the result has as many messages as the payload the stage received, and
\* every message but the last is the input's message at that place; a block
\* that the chain returns has this shape against the payload of the blocking
\* stage and against the payload the chain was called with.
C30_OnlyLastReplaced ==
  /\ (pc \in {"gate_return", "chain_after"} /\ Blocks(result)) =>
        /\ result.modified_payload \in DOMAIN heap
        /\ result.modified_payload # arg
        /\ SameButLast(heap[arg], heap[result.modified_payload])
        /\ heap[arg] = input
  /\ (/\ pc = "done"
      /\ entry = "chain_plugins"
      /\ returned \notin {NoResult, Raised}
      /\ ~returned.continue_processing
      /\ returned.modified_payload # None) =>
        /\ returned.modified_payload \in DOMAIN heap
        /\ SameButLast(heap[LastStage.payload], heap[returned.modified_payload])
        /\ SameButLast(input, heap[returned.modified_payload])

\* C30 happens: the chain returns the block of link_safety for a payload of
\* two messages, after the gate continued; the first message is the input's
\* and the last one is the block message.
C30_Witness ==
  /\ pc = "done"
  /\ entry = "chain_plugins"
  /\ returned \notin {NoResult, Raised}
  /\ ~returned.continue_processing
  /\ returned.modified_payload # None
  /\ LastStage.name = "link_safety"
  /\ Len(input) = 2
  /\ heap[returned.modified_payload] =
       <<input[1], Message("assistant", LINK_BLOCK_MESSAGE)>>

\* C30 happens at the gate: its block for a payload of two messages keeps
\* the first message.
C30_GateWitness ==
  /\ pc = "gate_return"
  /\ Blocks(result)
  /\ Len(heap[arg]) = 2
  /\ heap[result.modified_payload][1] = heap[arg][1]
  /\ heap[result.modified_payload][2] # heap[arg][2]

\* What request r runs with, running or parked.
RequestState(r) == IF r = who THEN ThisRequest ELSE parked[r]

\* Where a request is: its position, its chain stage and its category.
Position(q) == <<q.pc, q.idx, q.cat>>

\* The positions where a call of _run_detections is under way or has just
\* returned its report.
ReportPositions ==
  {"rd_credentials", "rd_token", "rd_detect", "rd_aggregate", "gate_decide"}

\* What a plan fixes for a call of _run_detections: the credentials and the
\* answers of the remote services.
CallAnswers(p) == <<p.key_value, p.environ, p.token, p.answers>>

\* C21: two calls of _run_detections with the same text, the same
\* credentials and the same answers of the remote services have, at every
\* point of the call and at its return, the same exhaustion result and the
\* same report, whichever requests they serve and whatever has run in the
\* process before or in between; so has ResourceExhaustionDetector.check,
\* whose result is in both.  No call changes what the module holds.
C21_SameCallSameReport ==
  /\ globals = GlobalsInit
  /\ \A r \in Requests, s \in Requests :
       LET a == RequestState(r)
           b == RequestState(s)
       IN  (/\ a.pc \in ReportPositions
            /\ a.pc = b.pc
            /\ a.cat = b.cat
            /\ a.user_input = b.user_input
            /\ CallAnswers(a.plan) = CallAnswers(b.plan)) =>
             /\ a.exhaustion_result = b.exhaustion_result
             /\ a.detection_results = b.detection_results
             /\ a.credentials = b.credentials
             /\ a.calls = b.calls

\* C21 happens: the call of request 1 has returned a HIGH report for
\* jailbreak; request 3, which came through the chain with a payload of its
\* own, has run to its end meanwhile; the call of request 2 returns the same
\* report.
C21_Witness ==
  /\ who = 2
  /\ pc = "gate_decide"
  /\ parked[1].pc = "gate_decide"
  /\ parked[3].pc = "done"
  /\ parked[3].entry = "chain_plugins"
  /\ parked[3].user_input = user_input
  /\ ~parked[3].returned.continue_processing
  /\ Get(detection_results, "overall_risk", "LOW") = "HIGH"
  /\ detection_results.primary_threat = "jailbreak"
  /\ detection_results.response = BLOCK_RESPONSE
  /\ parked[1].detection_results = detection_results

\* C23: while requests are served in any interleaving, nothing that the
\* module holds is written, and a request is, at every position, where the
\* same request is at that position in any other interleaving: requests 1
\* and 2 are the same request, 1 gets to any position before another
\* request has taken a step in some runs, 2 gets there with request 3 (any
\* request) and request 1 interleaved in every way, and the two agree in
\* report, verdict, result, payload objects and all the rest.
C23_NoInterference ==
  /\ globals = GlobalsInit
  /\ who \in Requests =>
       (Position(RequestState(1)) = Position(RequestState(2))
          => RequestState(1) = RequestState(2))

\* C23 happens: request 2 is blocked by the gate for jailbreak while request
\* 3, a request with another payload, is in the middle of its remote
\* checks, and request 1 has the same block.
C23_Witness ==
  /\ who = 2
  /\ pc = "gate_return"
  /\ Blocks(result)
  /\ parked[1].pc = "gate_return"
  /\ parked[1].result = result
  /\ parked[1].heap = heap
  /\ parked[3].pc = "rd_detect"
  /\ parked[3].cat = 4
  /\ parked[3].input # input
  /\ overall_risk = "HIGH"

====
